---- MODULE Spec2Model ----
(***************************************************************************)
(* A model of the per-connection core of src/core/connection.c: the timer  *)
(* array, the close state machine, the event indications, the operation    *)
(* queue and QuicConnDrainOperations.                                      *)
(*                                                                         *)
(* The fields owned by the draining thread are kept in the record          *)
(* Connection; each handler of connection.c is an operator that takes the  *)
(* record and returns the record it leaves, so that a handler calling      *)
(* another (QuicConnTryClose calling QuicConnTimerSet and                  *)
(* QuicConnIndicateShutdownBegin) is a composition of operators.           *)
(* Fields whose names start with "h" are history fields: they record what  *)
(* happened and no handler reads them.                                     *)
(***************************************************************************)
EXTENDS Integers, Sequences, FiniteSets, TLC

VARIABLES
    Connection,     \* QUIC_CONNECTION: the fields the draining thread owns
    now,            \* QuicTimeUs64(), in microseconds
    OperQ,          \* Connection->OperQ: the queued operations, head first
    ReceiveQueue,   \* Connection->ReceiveQueue: the datagrams awaiting FLUSH_RECV
    Worker,         \* the worker's scheduling state for this connection
    Drain,          \* the threads inside QuicConnDrainOperations and their locals
    Env             \* what the producers have done so far (bounds the inputs)

vars == <<Connection, now, OperQ, ReceiveQueue, Worker, Drain, Env>>

-----------------------------------------------------------------------------
(* Bounds of the model *)

\* The clock stops advancing at this many microseconds.
MaxTime == 60000
\* Operations and datagrams the producers submit in one behaviour.
MaxInputs == 2
\* Calls made in one behaviour of the timer-array specification.
MaxTimerCalls == 4
\* Operation allocations that fail in one behaviour.
MaxAllocFailures == 1
\* MaxOperationsPerDrain of the settings the connection runs with.
MaxOperationsPerDrain == 2

-----------------------------------------------------------------------------
(* Program constants *)

QUIC_CONN_TIMER_PACING         == 0
QUIC_CONN_TIMER_ACK_DELAY      == 1
QUIC_CONN_TIMER_LOSS_DETECTION == 2
QUIC_CONN_TIMER_KEEP_ALIVE     == 3
QUIC_CONN_TIMER_IDLE           == 4
QUIC_CONN_TIMER_SHUTDOWN       == 5
QUIC_CONN_TIMER_COUNT          == 6

\* The sentinel of an unarmed timer. TLC's integers are 32 bits wide, so the
\* sentinel is the largest of them; every time of the model is far below it.
UINT64_MAX == 2147483647

TimerTypes == 0 .. (QUIC_CONN_TIMER_COUNT - 1)
TimerSlots == 0 .. (QUIC_CONN_TIMER_COUNT - 1)

MS_TO_US(ms) == ms * 1000
US_TO_MS(us) == us \div 1000
max(a, b) == IF a > b THEN a ELSE b

-----------------------------------------------------------------------------
(* The timer array *)

\* The array QuicConnAlloc builds: slot i holds type i, unarmed.
InitialTimers ==
    [i \in TimerSlots |-> [Type |-> i, ExpirationTime |-> UINT64_MAX]]

\* The slot holding Type (the loop of QuicConnTimerSet keeps the last match;
\* CurIndex starts at 0).
TimerCurIndex(Timers, Type) ==
    LET S == {i \in TimerSlots : Timers[i].Type = Type}
    IN  IF S = {} THEN 0 ELSE CHOOSE i \in S : \A j \in S : j <= i

\* The first slot whose expiration is later than NewExpirationTime, or
\* ARRAYSIZE(Timers) when there is none.
TimerNewIndex(Timers, NewExpirationTime) ==
    LET S == {i \in TimerSlots : NewExpirationTime < Timers[i].ExpirationTime}
    IN  IF S = {} THEN QUIC_CONN_TIMER_COUNT
        ELSE CHOOSE i \in S : \A j \in S : i <= j

\* QuicConnTimerSet without the move of the entry: the expiration is always
\* updated in place.
TimerSetAtInPlace(Timers, Type, NewExpirationTime, NewIndex, CurIndex) ==
    [Timers |->
        [Timers EXCEPT ![CurIndex].ExpirationTime = NewExpirationTime],
     WheelUpdated |-> (CurIndex = 0)]

\* The three cases of QuicConnTimerSet once NewIndex and CurIndex are known.
TimerSetAt(Timers, Type, NewExpirationTime, NewIndex, CurIndex) ==
    IF NewIndex < CurIndex THEN
        \* Move the timer forward in the array.
        [Timers |->
            [i \in TimerSlots |->
                IF i = NewIndex
                    THEN [Type |-> Type, ExpirationTime |-> NewExpirationTime]
                ELSE IF i > NewIndex /\ i <= CurIndex THEN Timers[i - 1]
                ELSE Timers[i]],
         WheelUpdated |-> (NewIndex = 0)]
    ELSE IF NewIndex > CurIndex + 1 THEN
        \* Move the timer back in the array.
        [Timers |->
            [i \in TimerSlots |->
                IF i = NewIndex - 1
                    THEN [Type |-> Type, ExpirationTime |-> NewExpirationTime]
                ELSE IF i >= CurIndex /\ i < NewIndex - 1 THEN Timers[i + 1]
                ELSE Timers[i]],
         WheelUpdated |-> (NewIndex = 0)]
    ELSE
        \* Did not move: update the expiration time in place.
        [Timers |->
            [Timers EXCEPT ![CurIndex].ExpirationTime = NewExpirationTime],
         WheelUpdated |-> (CurIndex = 0)]

\* QuicConnTimerSet on the array alone: the array it leaves and whether it
\* called QuicTimerWheelUpdateConnection.
TimerSetArray(Timers, Type, Delay, TimeNow) ==
    TimerSetAt(Timers, Type, TimeNow + MS_TO_US(Delay),
               TimerNewIndex(Timers, TimeNow + MS_TO_US(Delay)),
               TimerCurIndex(Timers, Type))

\* The number of leading armed slots (the loop of QuicConnTimerCancel stops
\* at the first unarmed slot).
ArmedPrefix(Timers) ==
    LET S == {i \in TimerSlots : Timers[i].ExpirationTime = UINT64_MAX}
    IN  IF S = {} THEN QUIC_CONN_TIMER_COUNT
        ELSE CHOOSE i \in S : \A j \in S : i <= j

\* The first slot below j that holds Type, or j when there is none.
TimerFindArmed(Timers, Type, j) ==
    LET S == {i \in TimerSlots : i < j /\ Timers[i].Type = Type}
    IN  IF S = {} THEN j ELSE CHOOSE k \in S : \A l \in S : k <= l

\* The removal of slot i from the armed prefix of length j.
TimerCancelAt(Timers, Type, i, j) ==
    IF i >= j THEN [Timers |-> Timers, WheelUpdated |-> FALSE]
    ELSE [Timers |->
             [k \in TimerSlots |->
                 IF k = j - 1
                     THEN [Type |-> Type, ExpirationTime |-> UINT64_MAX]
                 ELSE IF k >= i /\ k < j - 1 THEN Timers[k + 1]
                 ELSE Timers[k]],
          WheelUpdated |-> (i = 0)]

\* QuicConnTimerCancel on the array alone.
TimerCancelArray(Timers, Type) ==
    TimerCancelAt(Timers, Type,
                  TimerFindArmed(Timers, Type, ArmedPrefix(Timers)),
                  ArmedPrefix(Timers))

\* The number of leading slots whose expiration is <= TimeNow.
ExpiredPrefix(Timers, TimeNow) ==
    LET S == {i \in TimerSlots : ~(Timers[i].ExpirationTime <= TimeNow)}
    IN  IF S = {} THEN QUIC_CONN_TIMER_COUNT
        ELSE CHOOSE i \in S : \A j \in S : i <= j

\* The rotation of QuicConnTimerExpired: the first i slots are disarmed and
\* moved behind the rest; Temp lists their types in the order of the array.
TimerExpiredAt(Timers, i) ==
    [Timers |->
        [k \in TimerSlots |->
            IF k < QUIC_CONN_TIMER_COUNT - i THEN Timers[k + i]
            ELSE [Type |-> Timers[k - (QUIC_CONN_TIMER_COUNT - i)].Type,
                  ExpirationTime |-> UINT64_MAX]],
     Temp |-> [k \in 1 .. i |-> Timers[k - 1].Type]]

\* QuicConnTimerExpired on the array alone.
TimerExpiredArray(Timers, TimeNow) ==
    TimerExpiredAt(Timers, ExpiredPrefix(Timers, TimeNow))

-----------------------------------------------------------------------------
(* The connection record *)

\* Close flags (arguments of QuicConnTryClose), as sets of flag names.
QUIC_CLOSE_SILENT            == "SILENT"
QUIC_CLOSE_SEND_NOTIFICATION == "SEND_NOTIFICATION"
QUIC_CLOSE_APPLICATION       == "APPLICATION"
QUIC_CLOSE_REMOTE            == "REMOTE"
QUIC_CLOSE_QUIC_STATUS       == "QUIC_STATUS"
QUIC_CLOSE_INTERNAL          == {QUIC_CLOSE_SEND_NOTIFICATION}
QUIC_CLOSE_INTERNAL_SILENT   == {QUIC_CLOSE_SEND_NOTIFICATION, QUIC_CLOSE_SILENT}

\* The state of a connection right after construction, at one of the phases
\* of its life at which the inputs of the model may start to arrive:
\*   "new":       QuicConnInitialize has returned (a server is not yet
\*                Initialized and has no external owner);
\*   "started":   the handshake is in progress (a client has been started, a
\*                server has been initialized and handed to the application);
\*   "connected": the handshake has completed.
InitialConnection(IsServer, Phase, SmoothedRtt, IdleTimeoutMs, KeepAliveIntervalMs) ==
    [ IsServer |-> IsServer,
      State |->
        [ Initialized   |-> (~IsServer \/ Phase # "new"),
          Started       |-> (Phase # "new"),
          Connected     |-> (Phase = "connected"),
          ExternalOwner |-> (~IsServer \/ Phase # "new"),
          ClosedLocally |-> FALSE,
          ClosedRemotely |-> FALSE,
          AppClosed     |-> FALSE,
          HandleShutdown |-> FALSE,
          HandleClosed  |-> FALSE,
          Uninitialized |-> FALSE,
          ShutdownCompleteTimedOut  |-> FALSE,
          SendShutdownCompleteNotif |-> FALSE ],
      ClientCallbackHandler |-> (~IsServer \/ Phase # "new"),
      Timers |-> InitialTimers,
      SmoothedRtt |-> SmoothedRtt,
      IdleTimeoutMs |-> IdleTimeoutMs,
      KeepAliveIntervalMs |-> KeepAliveIntervalMs,
      CloseStatus |-> "QUIC_STATUS_SUCCESS",
      CloseErrorCode |-> "QUIC_ERROR_NO_ERROR",
      SendFlags |-> {},
      \* history
      hEvents |-> << >>,          \* the events the client callback received
      hCallbackClose |-> 0,       \* the callback, counted from the next one, in
                                  \* which the application closes the handle
      hAppCloseCalled |-> FALSE,  \* the application has called ConnectionClose
      hUninitialize |-> 0,        \* the runs of QuicConnUninitialize
      hDiscarded |-> {},          \* the events discarded because HandleClosed
      hAllocFailed |-> {},        \* the expired timers whose operation was not allocated
      hTimerOpRan |-> FALSE,      \* QuicConnProcessShutdownTimerOperation ran
      hIdleOnOpen |-> FALSE,      \* the IDLE timer operation ran on an open,
                                  \* not closed connection
      hBoth |-> FALSE,            \* some QuicConnTryClose closed the second side
      hBothBeforeTimer |-> FALSE, \* ... and did so before the timer operation
      hSilent |-> FALSE,          \* some silent QuicConnTryClose took effect
      hPeerFirst |-> [Happened |-> FALSE],  \* the peer's close was the first
      hComplete |-> [Happened |-> FALSE]    \* QuicConnOnShutdownComplete ran
    ]

QuicConnIsServer(C) == C.IsServer

\* The loss-detection module's probe timeout for QUIC_CLOSE_PTO_COUNT probes,
\* in microseconds (QuicLossDetectionComputeProbeTimeout, a collaborator).
QuicLossDetectionComputeProbeTimeout == 20000

QuicSendSetSendFlag(C, Flag) == [C EXCEPT !.SendFlags = @ \cup {Flag}]

QuicConnTimerSet(C, Type, Delay) ==
    [C EXCEPT !.Timers = TimerSetArray(C.Timers, Type, Delay, now).Timers]

QuicConnTimerCancel(C, Type) ==
    [C EXCEPT !.Timers = TimerCancelArray(C.Timers, Type).Timers]

-----------------------------------------------------------------------------
(* Event indications *)

QuicConnCloseHandle(C) ==
    [C EXCEPT !.State.HandleClosed = TRUE, !.ClientCallbackHandler = FALSE]

\* The application's callback: it receives the event and may, from inside
\* the callback, close the connection handle (ConnectionClose runs inline on
\* the draining thread and calls QuicConnCloseHandle).
ClientCallbackHandler(C, Event) ==
    LET Seen == [Event EXCEPT !.AfterHandleClosed = C.State.HandleClosed,
                              !.Closed = C.State.ClosedLocally \/ C.State.ClosedRemotely]
        C1   == [C EXCEPT !.hEvents = Append(@, Seen),
                          !.hCallbackClose = IF @ > 0 THEN @ - 1 ELSE 0]
    IN  IF C.hCallbackClose = 1 /\ ~C.State.HandleClosed
            THEN QuicConnCloseHandle([C1 EXCEPT !.hAppCloseCalled = TRUE])
            ELSE C1

NewEvent(Type, ErrorCode, Status, PeerAcknowledgedShutdown) ==
    [Type |-> Type, ErrorCode |-> ErrorCode, Status |-> Status,
     PeerAcknowledgedShutdown |-> PeerAcknowledgedShutdown,
     AfterHandleClosed |-> FALSE, Closed |-> FALSE]

\* QuicConnIndicateEvent without the tests of HandleClosed and of the handler.
QuicConnIndicateEventUnchecked(C, Event) == ClientCallbackHandler(C, Event)

QuicConnIndicateEvent(C, Event) ==
    IF ~C.State.HandleClosed THEN
        IF ~C.ClientCallbackHandler
            THEN C     \* Event silently discarded (no handler).
            ELSE ClientCallbackHandler(C, Event)
    ELSE [C EXCEPT !.hDiscarded = @ \cup {Event.Type}]  \* Event silently discarded.

QuicConnIndicateShutdownBegin(C) ==
    IF C.State.AppClosed
        THEN QuicConnIndicateEvent(C,
                NewEvent("SHUTDOWN_INITIATED_BY_PEER", C.CloseErrorCode, "-", FALSE))
        ELSE QuicConnIndicateEvent(C,
                NewEvent("SHUTDOWN_INITIATED_BY_TRANSPORT", "-", C.CloseStatus, FALSE))

\* The second half of QuicConnOnShutdownComplete.
OnShutdownCompleteIndicate(C) ==
    IF ~C.State.ExternalOwner
        \* Never indicated to the application: clean up now.
        THEN QuicConnCloseHandle(C)
        ELSE QuicConnIndicateEvent(C,
                NewEvent("SHUTDOWN_COMPLETE", "-", "-",
                         ~C.State.ShutdownCompleteTimedOut))

\* QuicConnOnShutdownComplete without the test of HandleShutdown.
QuicConnOnShutdownCompleteAgain(C) ==
    OnShutdownCompleteIndicate([C EXCEPT !.State.HandleShutdown = TRUE])

QuicConnOnShutdownComplete(C) ==
    IF C.State.HandleShutdown THEN C
    ELSE OnShutdownCompleteIndicate(
            [C EXCEPT
                !.State.HandleShutdown = TRUE,
                !.hComplete =
                    [Happened |-> TRUE,
                     TimedOut |-> C.State.ShutdownCompleteTimedOut,
                     Both |-> C.hBoth,
                     BothBeforeTimer |-> C.hBothBeforeTimer,
                     Silent |-> C.hSilent,
                     TimerOpRan |-> C.hTimerOpRan,
                     Closed |-> C.State.ClosedLocally \/ C.State.ClosedRemotely]])

QuicErrorCodeToStatus(ErrorCode) ==
    CASE ErrorCode = "QUIC_ERROR_NO_ERROR"           -> "QUIC_STATUS_SUCCESS"
      [] ErrorCode = "QUIC_ERROR_SERVER_BUSY"        -> "QUIC_STATUS_SERVER_BUSY"
      [] ErrorCode = "QUIC_ERROR_PROTOCOL_VIOLATION" -> "QUIC_STATUS_PROTOCOL_ERROR"
      [] OTHER                                       -> "QUIC_STATUS_INTERNAL_ERROR"

-----------------------------------------------------------------------------
(* The close state machine *)

\* The loop of QuicConnTryClose that cancels the timers from First up to, and
\* not including, Last.
RECURSIVE CancelTimerRange(_, _, _)
CancelTimerRange(C, First, Last) ==
    IF First < Last
        THEN CancelTimerRange(QuicConnTimerCancel(C, First), First + 1, Last)
        ELSE C

\* The draining period without its floor of 15 milliseconds.
DrainingPeriodMsNoFloor(C) == US_TO_MS(C.SmoothedRtt * 2)

\* The delay of the draining period, in milliseconds.
DrainingPeriodMs(C) == max(15, US_TO_MS(C.SmoothedRtt * 2))

\* The conditions QuicConnTryClose computes before it changes anything.
TryCloseAlreadyClosed(C, Flags) ==
    \/ (QUIC_CLOSE_REMOTE \in Flags /\ C.State.ClosedRemotely)
    \/ (QUIC_CLOSE_REMOTE \notin Flags /\ C.State.ClosedLocally)
TryClosePeerFirst(C, Flags) ==
    QUIC_CLOSE_REMOTE \in Flags /\ ~C.State.ClosedLocally
TryCloseLocalFirst(C, Flags) ==
    QUIC_CLOSE_REMOTE \notin Flags /\ ~C.State.ClosedRemotely
\* A server terminating a connection attempt closes the client at once.
TryCloseSilent(C, Flags) ==
    \/ QUIC_CLOSE_SILENT \in Flags
    \/ (TryClosePeerFirst(C, Flags) /\ ~C.State.Connected /\ ~QuicConnIsServer(C))

\* Already closed: only a silent close forced after the close process
\* started changes anything.
TryCloseAgain(C, Flags) ==
    IF QUIC_CLOSE_SILENT \in Flags /\ C.State.ClosedLocally /\ ~C.State.ClosedRemotely
        THEN [C EXCEPT !.State.ShutdownCompleteTimedOut = FALSE,
                       !.State.SendShutdownCompleteNotif = TRUE,
                       !.hSilent = TRUE]
        ELSE C

\* The three branches that arm the SHUTDOWN timer.
TryCloseArm(C, Flags, PeerFirst, LocalFirst, SilentClose) ==
    IF PeerFirst THEN
        IF ~SilentClose
            \* Enter the draining period.
            THEN QuicSendSetSendFlag(
                    QuicConnTimerSet(C, QUIC_CONN_TIMER_SHUTDOWN, DrainingPeriodMs(C)),
                    "CONNECTION_CLOSE")
            ELSE C
    ELSE IF LocalFirst THEN
        IF ~SilentClose
            \* Enter the closing period.
            THEN QuicSendSetSendFlag(
                    QuicConnTimerSet(C, QUIC_CONN_TIMER_SHUTDOWN,
                        US_TO_MS(QuicLossDetectionComputeProbeTimeout)),
                    IF QUIC_CLOSE_APPLICATION \in Flags
                        THEN "APPLICATION_CLOSE"
                        ELSE "CONNECTION_CLOSE")
            ELSE C
    ELSE
        \* The other side was closed already: a client cleans up at once, a
        \* server goes from the closing period to the draining period.
        IF QuicConnIsServer(C) /\ ~SilentClose
            THEN QuicConnTimerSet(C, QUIC_CONN_TIMER_SHUTDOWN, DrainingPeriodMs(C))
            ELSE C

TryCloseMark(C, Flags) ==
    IF QUIC_CLOSE_REMOTE \in Flags
        THEN [C EXCEPT !.State.ClosedRemotely = TRUE]
        ELSE [C EXCEPT !.State.ClosedLocally = TRUE]

\* The history of the close: Old is the connection as QuicConnTryClose found it.
TryCloseHistory(C, Old, Flags, ErrorCode, PeerFirst, LocalFirst, SilentClose) ==
    [C EXCEPT
        !.hBoth = @ \/ (~PeerFirst /\ ~LocalFirst),
        !.hBothBeforeTimer = @ \/ (~PeerFirst /\ ~LocalFirst /\ ~Old.hTimerOpRan),
        !.hSilent = @ \/ SilentClose,
        !.hPeerFirst =
            IF PeerFirst
                THEN [Happened |-> TRUE,
                      Silent |-> SilentClose,
                      App |-> QUIC_CLOSE_APPLICATION \in Flags,
                      ErrorCode |-> ErrorCode,
                      Time |-> now,
                      SmoothedRtt |-> Old.SmoothedRtt,
                      Events |-> Len(Old.hEvents),
                      ShutdownTimer |->
                        C.Timers[TimerCurIndex(C.Timers,
                            QUIC_CONN_TIMER_SHUTDOWN)].ExpirationTime,
                      Notified |-> Old.State.ExternalOwner /\
                                   Old.ClientCallbackHandler /\
                                   ~Old.State.HandleClosed]
                ELSE @]

TryCloseStatus(C, Flags, ErrorCode) ==
    IF QUIC_CLOSE_QUIC_STATUS \in Flags
        THEN [C EXCEPT !.CloseStatus = ErrorCode,
                       !.CloseErrorCode = "QUIC_ERROR_INTERNAL_ERROR"]
        ELSE [C EXCEPT !.CloseStatus = QuicErrorCodeToStatus(ErrorCode),
                       !.CloseErrorCode = ErrorCode]

TryCloseApp(C, Flags) ==
    IF QUIC_CLOSE_APPLICATION \in Flags
        THEN [C EXCEPT !.State.AppClosed = TRUE]
        ELSE C

\* TryCloseNotify keyed on the APPLICATION flag.
TryCloseNotifyApplication(C, Flags) ==
    IF QUIC_CLOSE_APPLICATION \in Flags /\ C.State.ExternalOwner
        THEN QuicConnIndicateShutdownBegin(C)
        ELSE C

TryCloseNotify(C, Flags) ==
    IF QUIC_CLOSE_SEND_NOTIFICATION \in Flags /\ C.State.ExternalOwner
        THEN QuicConnIndicateShutdownBegin(C)
        ELSE C

\* TryCloseFirst recording the status and the error code on every close.
TryCloseFirstEveryStatus(C, Flags, ErrorCode, IsFirstCloseForConnection) ==
    IF IsFirstCloseForConnection
        THEN TryCloseNotify(
                TryCloseApp(
                    TryCloseStatus(
                        CancelTimerRange(
                            [C EXCEPT !.State.ShutdownCompleteTimedOut = TRUE],
                            QUIC_CONN_TIMER_IDLE, QUIC_CONN_TIMER_SHUTDOWN),
                        Flags, ErrorCode),
                    Flags),
                Flags)
        ELSE TryCloseStatus(C, Flags, ErrorCode)

\* The part of QuicConnTryClose that runs on the first close of the
\* connection, in either direction.
TryCloseFirst(C, Flags, ErrorCode, IsFirstCloseForConnection) ==
    IF IsFirstCloseForConnection
        THEN TryCloseNotify(
                TryCloseApp(
                    TryCloseStatus(
                        \* Default to the timed out state; cancel the timers.
                        CancelTimerRange(
                            [C EXCEPT !.State.ShutdownCompleteTimedOut = TRUE],
                            QUIC_CONN_TIMER_IDLE, QUIC_CONN_TIMER_SHUTDOWN),
                        Flags, ErrorCode),
                    Flags),
                Flags)
        ELSE C

TryCloseFinish(C, SilentClose) ==
    IF SilentClose \/ (C.State.ClosedRemotely /\ C.State.ClosedLocally)
        THEN [C EXCEPT !.State.ShutdownCompleteTimedOut = FALSE,
                       !.State.SendShutdownCompleteNotif = TRUE]
        ELSE C

\* QuicConnTryClose on a side that is not closed yet.
TryCloseNew(C, Flags, ErrorCode, PeerFirst, LocalFirst, SilentClose) ==
    TryCloseFinish(
        TryCloseFirst(
            TryCloseHistory(
                TryCloseMark(
                    TryCloseArm(C, Flags, PeerFirst, LocalFirst, SilentClose),
                    Flags),
                C, Flags, ErrorCode, PeerFirst, LocalFirst, SilentClose),
            Flags, ErrorCode, PeerFirst \/ LocalFirst),
        SilentClose)

QuicConnTryClose(C, Flags, ErrorCode) ==
    IF TryCloseAlreadyClosed(C, Flags)
        THEN TryCloseAgain(C, Flags)
        ELSE TryCloseNew(C, Flags, ErrorCode,
                         TryClosePeerFirst(C, Flags),
                         TryCloseLocalFirst(C, Flags),
                         TryCloseSilent(C, Flags))

\* QuicConnProcessShutdownTimerOperation reporting the shutdown as
\* acknowledged by the peer.
QuicConnProcessShutdownTimerOperationAcked(C) ==
    [C EXCEPT !.State.ClosedRemotely = TRUE,
              !.State.ShutdownCompleteTimedOut = FALSE,
              !.State.SendShutdownCompleteNotif = TRUE,
              !.hTimerOpRan = TRUE]

QuicConnProcessShutdownTimerOperation(C) ==
    [C EXCEPT !.State.ClosedRemotely = TRUE,
              !.State.SendShutdownCompleteNotif = TRUE,
              !.hTimerOpRan = TRUE]

QuicConnCloseLocally(C, Flags, ErrorCode) ==
    QuicConnTryClose(C, Flags, ErrorCode)

\* QuicConnTransportError: the connection is closed locally with the
\* transport error code, which the peer is told.
QuicConnTransportError(C, ErrorCode) ==
    QuicConnCloseLocally(C, QUIC_CLOSE_INTERNAL, ErrorCode)

\* Flags: the QUIC_CONNECTION_SHUTDOWN_FLAG_SILENT bit of the API call.
QuicConnShutdown(C, Silent, ErrorCode) ==
    LET CloseFlags ==
            {QUIC_CLOSE_APPLICATION} \cup
            (IF Silent \/ (~C.State.Started /\ ~QuicConnIsServer(C))
                THEN {QUIC_CLOSE_SILENT} ELSE {})
    IN  QuicConnCloseLocally(C, CloseFlags, ErrorCode)

\* The queue is cleared and the timer wheel forgets the connection as well;
\* the action that runs the drain does both.
QuicConnUninitialize(C) ==
    QuicConnShutdown([C EXCEPT !.State.Uninitialized = TRUE,
                               !.hUninitialize = @ + 1],
                     TRUE, "QUIC_ERROR_NO_ERROR")

-----------------------------------------------------------------------------
(* Idle and keep-alive timers *)

\* The peer's idle timeout is not modelled (PeerTransportParams.IdleTimeout
\* is 0), so the local setting is used; it is no less than the closing period.
ResetIdleTimer(C) ==
    IF C.IdleTimeoutMs # 0
        THEN QuicConnTimerSet(C, QUIC_CONN_TIMER_IDLE,
                max(C.IdleTimeoutMs, US_TO_MS(QuicLossDetectionComputeProbeTimeout)))
        ELSE C

ResetKeepAliveTimer(C) ==
    IF C.KeepAliveIntervalMs # 0
        THEN QuicConnTimerSet(C, QUIC_CONN_TIMER_KEEP_ALIVE, C.KeepAliveIntervalMs)
        ELSE C

QuicConnResetIdleTimeout(C) == ResetKeepAliveTimer(ResetIdleTimer(C))

\* QuicConnProcessIdleTimerOperation closing through the closing period
\* instead of silently.
QuicConnProcessIdleTimerOperationClosing(C) ==
    QuicConnCloseLocally(
        [C EXCEPT !.hIdleOnOpen = @ \/ (~C.State.ClosedLocally /\
                                         ~C.State.ClosedRemotely /\
                                         ~C.State.HandleClosed)],
        QUIC_CLOSE_INTERNAL \cup {QUIC_CLOSE_QUIC_STATUS},
        "QUIC_STATUS_CONNECTION_IDLE")

QuicConnProcessIdleTimerOperation(C) ==
    QuicConnCloseLocally(
        [C EXCEPT !.hIdleOnOpen = @ \/ (~C.State.ClosedLocally /\
                                         ~C.State.ClosedRemotely /\
                                         ~C.State.HandleClosed)],
        QUIC_CLOSE_INTERNAL_SILENT \cup {QUIC_CLOSE_QUIC_STATUS},
        "QUIC_STATUS_CONNECTION_IDLE")

QuicConnProcessKeepAliveOperation(C) ==
    QuicConnTimerSet(QuicSendSetSendFlag(C, "PING"),
                     QUIC_CONN_TIMER_KEEP_ALIVE, C.KeepAliveIntervalMs)

\* QuicLossDetectionProcessTimerOperation belongs to the loss-detection
\* module; it changes no field of this model.
QuicConnProcessExpiredTimer(C, Type) ==
    CASE Type = QUIC_CONN_TIMER_IDLE           -> QuicConnProcessIdleTimerOperation(C)
      [] Type = QUIC_CONN_TIMER_LOSS_DETECTION -> C
      [] Type = QUIC_CONN_TIMER_KEEP_ALIVE     -> QuicConnProcessKeepAliveOperation(C)
      [] Type = QUIC_CONN_TIMER_SHUTDOWN       -> QuicConnProcessShutdownTimerOperation(C)

-----------------------------------------------------------------------------
(* The operation queue and the worker *)

\* Operation types (QUIC_OPER_TYPE_*) and API call types (QUIC_API_TYPE_*).
QUIC_OPER_TYPE_API_CALL      == "API_CALL"
QUIC_OPER_TYPE_FLUSH_RECV    == "FLUSH_RECV"
QUIC_OPER_TYPE_FLUSH_SEND    == "FLUSH_SEND"
QUIC_OPER_TYPE_TIMER_EXPIRED == "TIMER_EXPIRED"
QUIC_API_TYPE_CONN_CLOSE     == "CONN_CLOSE"
QUIC_API_TYPE_CONN_SHUTDOWN  == "CONN_SHUTDOWN"
QUIC_API_TYPE_GET_PARAM      == "GET_PARAM"

\* A freshly allocated operation. The queue stamps hFront and hQueued when
\* the operation is inserted: whether it was inserted at the front, and how
\* many operations were queued at that moment.
QuicOperationAlloc(Type, Arg) ==
    [Type |-> Type, Arg |-> Arg, hFront |-> FALSE, hQueued |-> 0]

NoArg == [Api |-> "-", Silent |-> FALSE, ErrorCode |-> "-", Timer |-> 0]
ApiArg(Api, Silent, ErrorCode) ==
    [Api |-> Api, Silent |-> Silent, ErrorCode |-> ErrorCode, Timer |-> 0]
TimerArg(Type) ==
    [Api |-> "-", Silent |-> FALSE, ErrorCode |-> "-", Timer |-> Type]

InitialOperQ == [List |-> << >>, hInserts |-> << >>]

\* Inserts at the tail; TRUE when the list was empty before the insert.
QuicOperationEnqueue(Q, Oper) ==
    [OperQ |-> [Q EXCEPT !.List = Append(@,
                    [Oper EXCEPT !.hFront = FALSE, !.hQueued = Len(Q.List)])],
     StartProcessing |-> (Q.List = << >>)]

\* Inserts at the head; TRUE when the list was empty before the insert.
QuicOperationEnqueueFront(Q, Oper) ==
    [OperQ |-> [Q EXCEPT !.List =
                    <<[Oper EXCEPT !.hFront = TRUE, !.hQueued = Len(Q.List)]>> \o @],
     StartProcessing |-> (Q.List = << >>)]

\* Removes the head; the caller checks that the list is not empty (the NULL
\* result of the code).
QuicOperationDequeue(Q) ==
    [OperQ |-> [Q EXCEPT !.List = Tail(@)], Oper |-> Head(Q.List)]

\* QuicOperationQueueClear.
QuicOperationQueueClear(Q) == [Q EXCEPT !.List = << >>]

\* The worker's view of the connection: HasQueuedWork is set by a signal and
\* cleared when a thread of the worker picks the connection up; Processing
\* holds while a thread runs the drain.
InitialWorker ==
    [HasQueuedWork |-> FALSE, Processing |-> FALSE, hLastThread |-> "none"]

QuicWorkerQueueConnection(W) == [W EXCEPT !.HasQueuedWork = TRUE]

\* The record of one insert, kept for the inserts of the latest action: the
\* operator that made it, whether the list was empty before it, the operation
\* as it was queued and whether QuicWorkerQueueConnection was called.
InsertRecord(Via, Q, Oper, Signaled) ==
    [Via |-> Via, WasEmpty |-> (Q.List = << >>), Oper |-> Oper,
     Signaled |-> Signaled]

\* QuicConnQueueOper signalling the worker on every insert.
QuicConnQueueOperAlwaysSignal(S, Oper) ==
    LET R == QuicOperationEnqueue(S.OperQ, Oper)
    IN  [OperQ |-> [R.OperQ EXCEPT !.hInserts = Append(@,
                        InsertRecord("QuicConnQueueOper", S.OperQ,
                                     R.OperQ.List[Len(R.OperQ.List)], TRUE))],
         Worker |-> QuicWorkerQueueConnection(S.Worker)]

\* S is the pair [OperQ, Worker] the producers share.
QuicConnQueueOper(S, Oper) ==
    LET R == QuicOperationEnqueue(S.OperQ, Oper)
        Queued == R.OperQ.List[Len(R.OperQ.List)]
    IN  IF R.StartProcessing
            \* First operation in the OperQ: queue the connection on the worker.
            THEN [OperQ |-> [R.OperQ EXCEPT !.hInserts = Append(@,
                                InsertRecord("QuicConnQueueOper", S.OperQ,
                                             Queued, TRUE))],
                  Worker |-> QuicWorkerQueueConnection(S.Worker)]
            ELSE [OperQ |-> [R.OperQ EXCEPT !.hInserts = Append(@,
                                InsertRecord("QuicConnQueueOper", S.OperQ,
                                             Queued, FALSE))],
                  Worker |-> S.Worker]

\* QuicConnQueueHighestPriorityOper inserting at the tail.
QuicConnQueueHighestPriorityOperAtTail(S, Oper) ==
    LET R == QuicOperationEnqueue(S.OperQ, Oper)
    IN  [OperQ |-> [R.OperQ EXCEPT !.hInserts = Append(@,
                        InsertRecord("QuicConnQueueHighestPriorityOper", S.OperQ,
                                     R.OperQ.List[Len(R.OperQ.List)],
                                     R.StartProcessing))],
         Worker |-> IF R.StartProcessing
                        THEN QuicWorkerQueueConnection(S.Worker)
                        ELSE S.Worker]

QuicConnQueueHighestPriorityOper(S, Oper) ==
    LET R == QuicOperationEnqueueFront(S.OperQ, Oper)
        Queued == R.OperQ.List[1]
    IN  IF R.StartProcessing
            THEN [OperQ |-> [R.OperQ EXCEPT !.hInserts = Append(@,
                                InsertRecord("QuicConnQueueHighestPriorityOper",
                                             S.OperQ, Queued, TRUE))],
                  Worker |-> QuicWorkerQueueConnection(S.Worker)]
            ELSE [OperQ |-> [R.OperQ EXCEPT !.hInserts = Append(@,
                                InsertRecord("QuicConnQueueHighestPriorityOper",
                                             S.OperQ, Queued, FALSE))],
                  Worker |-> S.Worker]

\* The FLUSH_SEND case of QuicConnDrainOperations when the send module still
\* has packets to send: the operation goes back on the queue and the result
\* of QuicOperationEnqueue is discarded.
RequeueFlushSend(Q, Oper) ==
    LET R == QuicOperationEnqueue(Q, Oper)
    IN  [R.OperQ EXCEPT !.hInserts = Append(@,
            InsertRecord("QuicOperationEnqueue", Q,
                         R.OperQ.List[Len(R.OperQ.List)], FALSE))]

\* The pair at the start of an action: the record of inserts starts empty.
Shared == [OperQ |-> [OperQ EXCEPT !.hInserts = << >>], Worker |-> Worker]

-----------------------------------------------------------------------------
(* Receive path *)

\* The number of destination CIDs a connection keeps. Its value is defined
\* outside connection.c; the model takes a small one.
QUIC_ACTIVE_CONNECTION_ID_LIMIT == 2

\* A connection ID: its bytes and their number.
Cid(Data, Length) == [Data |-> Data, Length |-> Length]

\* QuicCidNewDestination: a new entry of Connection->DestCIDs.
QuicCidNewDestination(CID) ==
    [CID |-> CID, IsInitial |-> FALSE, HasResetToken |-> FALSE,
     ResetToken |-> "none", SequenceNumber |-> 0,
     Retired |-> FALSE, NeedsToSend |-> FALSE]

\* The frame F is a NEW_CONNECTION_ID frame that decoded; the allocation of
\* the entry succeeds.
RecvNewConnectionID(C, F) ==
    IF C.DestCIDCount < QUIC_ACTIVE_CONNECTION_ID_LIMIT
        THEN [C EXCEPT !.DestCIDs =
                          Append(@, [QuicCidNewDestination(F.CID) EXCEPT
                                        !.HasResetToken = TRUE,
                                        !.SequenceNumber = F.Sequence,
                                        !.ResetToken = F.ResetToken]),
                       !.DestCIDCount = @ + 1]
        ELSE [C EXCEPT !.hIgnoredCIDs = @ + 1]   \* logged and ignored

\* QuicConnRetireCurrentDestCid: the first destination CID that is not
\* retired is retired, unless it has no bytes or nothing follows it.
RECURSIVE RetireDestCidFrom(_, _)
RetireDestCidWithoutReplacement(C, k) ==
    IF k > Len(C.DestCIDs) THEN C
    ELSE IF C.DestCIDs[k].CID.Length = 0 THEN C
    ELSE IF C.DestCIDs[k].Retired THEN RetireDestCidFrom(C, k + 1)
    ELSE QuicSendSetSendFlag(
            [C EXCEPT !.DestCIDs[k].Retired = TRUE,
                      !.DestCIDs[k].NeedsToSend = TRUE],
            "RETIRE_CONNECTION_ID")

RetireDestCidFrom(C, k) ==
    IF k > Len(C.DestCIDs) THEN C
    ELSE IF C.DestCIDs[k].CID.Length = 0 THEN C     \* zero length
    ELSE IF C.DestCIDs[k].Retired THEN RetireDestCidFrom(C, k + 1)
    ELSE IF k = Len(C.DestCIDs) THEN C              \* no replacement
    ELSE QuicSendSetSendFlag(
            [C EXCEPT !.DestCIDs[k].Retired = TRUE,
                      !.DestCIDs[k].NeedsToSend = TRUE],
            "RETIRE_CONNECTION_ID")

QuicConnRetireCurrentDestCid(C) == RetireDestCidFrom(C, 1)

\* The length of the CIDs a connection generates for itself.
MSQUIC_CONNECTION_ID_LENGTH == 8

\* A new entry of Connection->SourceCIDs.
QuicCidNewSource(CID) ==
    [CID |-> CID, IsInitial |-> FALSE, UsedByPeer |-> FALSE,
     NeedsToSend |-> FALSE, SequenceNumber |-> 0]

\* The sequence S without its k-th entry.
RemoveAt(S, k) == SubSeq(S, 1, k - 1) \o SubSeq(S, k + 1, Len(S))

\* QuicConnGenerateNewSourceCid. Failure tells what goes wrong: "none",
\* "alloc" (QuicCidNewRandomSource returns NULL) or "collisions" (more than
\* QUIC_CID_MAX_COLLISION_RETRY random CIDs are in the binding already).
\* The CID of sequence number n is <<"L", n>>.
GenerateNewSourceCidInsert(C, SourceCID, IsInitial) ==
    IF IsInitial
        THEN [C EXCEPT !.SourceCIDs = <<[SourceCID EXCEPT !.IsInitial = TRUE]>> \o @]
        ELSE [C EXCEPT !.SourceCIDs = Append(@, SourceCID)]

GenerateNewSourceCidAdd(C, Sequence, IsInitial) ==
    GenerateNewSourceCidInsert(
        IF Sequence > 0
            THEN QuicSendSetSendFlag(
                    [C EXCEPT !.NextSourceCidSequenceNumber = @ + 1],
                    "NEW_CONNECTION_ID")
            ELSE [C EXCEPT !.NextSourceCidSequenceNumber = @ + 1],
        [QuicCidNewSource(Cid(<<"L", Sequence>>, MSQUIC_CONNECTION_ID_LENGTH))
            EXCEPT !.SequenceNumber = Sequence, !.NeedsToSend = (Sequence > 0)],
        IsInitial)

QuicConnGenerateNewSourceCid(C, IsInitial, Failure) ==
    IF ~C.State.ShareBinding THEN C
    ELSE IF Failure # "none" THEN C
    ELSE GenerateNewSourceCidAdd(C, C.NextSourceCidSequenceNumber, IsInitial)

\* QuicConnGetSourceCidFromSeq and QuicConnGetSourceCidFromBuf: the place in
\* SourceCIDs of the first entry of that sequence number, or of those bytes;
\* 0 stands for NULL.
FirstSourceCid(C, Matches(_)) ==
    IF \E k \in 1 .. Len(C.SourceCIDs) : Matches(C.SourceCIDs[k])
        THEN CHOOSE k \in 1 .. Len(C.SourceCIDs) :
                /\ Matches(C.SourceCIDs[k])
                /\ \A j \in 1 .. (k - 1) : ~Matches(C.SourceCIDs[j])
        ELSE 0

QuicConnGetSourceCidFromSeq(C, Sequence) ==
    LET Matches(E) == E.SequenceNumber = Sequence IN FirstSourceCid(C, Matches)

QuicConnGetSourceCidFromBuf(C, CID) ==
    LET Matches(E) == E.CID = CID IN FirstSourceCid(C, Matches)

\* The frame F is a RETIRE_CONNECTION_ID frame that decoded, on a connection
\* that is not closed. The entry is taken off the list and freed.
RetireSourceCidNeverLast(C, Failure) ==
    QuicConnGenerateNewSourceCid(C, FALSE, Failure)

RetireSourceCidRemoved(C, Failure) ==
    IF C.SourceCIDs = << >>     \* IsLastCid
        THEN QuicConnCloseLocally(C, QUIC_CLOSE_INTERNAL_SILENT,
                                  "QUIC_ERROR_PROTOCOL_VIOLATION")
        ELSE QuicConnGenerateNewSourceCid(C, FALSE, Failure)

RetireSourceCidAt(C, k, Failure) ==
    IF k # 0
        THEN RetireSourceCidRemoved([C EXCEPT !.SourceCIDs = RemoveAt(@, k)], Failure)
        ELSE C

RecvRetireConnectionID(C, F) ==
    RetireSourceCidAt(C, QuicConnGetSourceCidFromSeq(C, F.Sequence), F.Failure)

\* QuicConnRecvPostProcessing: the first packet the peer sends to a source
\* CID. On a server the initial CID the client chose is discarded once the
\* client uses the initial CID the server chose; a change of CID the
\* connection did not start is answered with a change of destination CID.
RecvPostProcessingDiscardsBoth(C, k) ==
    IF k < Len(C.SourceCIDs)
        THEN [C EXCEPT !.SourceCIDs = RemoveAt(RemoveAt(@, k + 1), k)]
        ELSE C

RecvPostProcessingInitial(C, k) ==
    IF /\ QuicConnIsServer(C)
       /\ k < Len(C.SourceCIDs)
       /\ C.SourceCIDs[k + 1].IsInitial
        THEN [C EXCEPT !.SourceCIDs = RemoveAt(@, k + 1)]
        ELSE C

RecvPostProcessingUnconfirms(C, k) ==
    IF C.SourceCIDs[k].IsInitial THEN RecvPostProcessingInitial(C, k)
    ELSE IF ~C.State.InitiatedCidUpdate THEN QuicConnRetireCurrentDestCid(C)
    ELSE [C EXCEPT !.State.InitiatedCidUpdate = FALSE,
                   !.State.HandshakeConfirmed = FALSE]

RecvPostProcessingFirstUse(C, k) ==
    IF C.SourceCIDs[k].IsInitial THEN RecvPostProcessingInitial(C, k)
    ELSE IF ~C.State.InitiatedCidUpdate THEN QuicConnRetireCurrentDestCid(C)
    ELSE [C EXCEPT !.State.InitiatedCidUpdate = FALSE]

RecvPostProcessingAt(C, k) ==
    IF k # 0 /\ ~C.SourceCIDs[k].UsedByPeer
        THEN RecvPostProcessingFirstUse(
                [C EXCEPT !.SourceCIDs[k].UsedByPeer = TRUE], k)
        ELSE C

QuicConnRecvPostProcessing(C, Packet) ==
    IF Packet.DestCID.Length # 0
        THEN RecvPostProcessingAt(C, QuicConnGetSourceCidFromBuf(C, Packet.DestCID))
        ELSE C

Frame(Type, ApplicationClosed, ErrorCode) ==
    [Type |-> Type, ApplicationClosed |-> ApplicationClosed, ErrorCode |-> ErrorCode]

\* The frames of QuicConnRecvPayload the model follows. Every other frame
\* type is handled by a collaborator and changes no field of the model. A
\* frame of type "MALFORMED" stands for a frame of any type that fails to
\* decode.
RECURSIVE RecvFrames(_, _, _, _)

\* After a CONNECTION_CLOSE frame: if the handle is now closed, exit at once.
RecvAfterClose(C, Frames, Closed, Type) ==
    IF C.State.HandleClosed
        THEN C      \* goto Done
        ELSE RecvFrames(C, Frames, Closed, Type)

\* Every frame is allowed, whatever the type of the packet.
FrameAllowedAlways(F, Type) == TRUE

\* The frames a packet of the type may carry. Before the 1-RTT level these
\* are PADDING, PING, ACK, CRYPTO and CONNECTION_CLOSE of either kind
\* (QUIC_FRAME_CONNECTION_CLOSE and QUIC_FRAME_CONNECTION_CLOSE_1, the
\* application's); a 0-RTT packet, whose level is the 1-RTT one, carries no ACK.
FrameAllowed(F, Type) ==
    IF Type \in {"INITIAL", "HANDSHAKE"}   \* EncryptLevel != QUIC_ENCRYPT_LEVEL_1_RTT
        THEN F.Type \in {"PADDING", "PING", "ACK", "CRYPTO", "CONNECTION_CLOSE"}
    ELSE IF Type = "0RTT"                  \* KeyType == QUIC_PACKET_KEY_0_RTT
        THEN F.Type # "ACK"
        ELSE TRUE

CloseFrameFlags(F) ==
    {QUIC_CLOSE_REMOTE, QUIC_CLOSE_SEND_NOTIFICATION} \cup
    (IF F.ApplicationClosed THEN {QUIC_CLOSE_APPLICATION} ELSE {})

\* The low bits of a stream ID: the initiator and the direction.
STREAM_ID_IS_CLIENT(StreamId) == StreamId % 2 = 0
STREAM_ID_IS_UNI_DIR(StreamId) == (StreamId \div 2) % 2 = 1

\* The stream set looks the stream up; a stream of the peer that is unknown
\* is created.
QuicStreamSetGetStreamForPeer(C, StreamId, PeerOriginatedStream) ==
    IF PeerOriginatedStream
        THEN [C EXCEPT !.hStreams = @ \cup {StreamId}]
        ELSE C

\* A frame of the STREAM family, MAX_STREAM_DATA or STREAM_DATA_BLOCKED, on a
\* connection that was open when the payload was entered.
RecvStreamFrame(C, F) ==
    LET PeerOriginatedStream ==
            IF QuicConnIsServer(C)
                THEN STREAM_ID_IS_CLIENT(F.StreamId)
                ELSE ~STREAM_ID_IS_CLIENT(F.StreamId)
        IsReceiverSideFrame == F.Type = "MAX_STREAM_DATA"
    IN  IF /\ STREAM_ID_IS_UNI_DIR(F.StreamId)
           /\ PeerOriginatedStream = IsReceiverSideFrame
            THEN QuicConnTransportError(C, "QUIC_ERROR_STREAM_STATE_ERROR")  \* break
            ELSE QuicStreamSetGetStreamForPeer(C, F.StreamId, PeerOriginatedStream)

RecvMaxData(C, F) ==
    IF C.PeerMaxData < F.MaximumData
        THEN [C EXCEPT !.PeerMaxData = F.MaximumData]
        ELSE C

RecvPathChallenge(C, F) ==
    IF C.LastPathChallengeReceived # F.Data
        THEN QuicSendSetSendFlag(
                [C EXCEPT !.LastPathChallengeReceived = F.Data], "PATH_RESPONSE")
        ELSE C

RecvFrame(C, F, Closed) ==
    IF F.Type = "STREAMS_BLOCKED" /\ ~Closed
        THEN QuicConnIndicateEvent(C, NewEvent("PEER_NEEDS_STREAMS", "-", "-", FALSE))
    ELSE IF F.Type = "NEW_CONNECTION_ID" /\ ~Closed
        THEN RecvNewConnectionID(C, F)
    ELSE IF F.Type = "RETIRE_CONNECTION_ID" /\ ~Closed
        THEN RecvRetireConnectionID(C, F)
    ELSE IF F.Type = "CRYPTO" /\ ~Closed /\ ~QuicConnIsServer(C)
        THEN [C EXCEPT !.State.GotFirstServerResponse = TRUE]
    ELSE IF F.Type \in {"STREAM", "MAX_STREAM_DATA"} /\ ~Closed
        THEN RecvStreamFrame(C, F)
    ELSE IF F.Type = "MAX_DATA" /\ ~Closed
        THEN RecvMaxData(C, F)
    ELSE IF F.Type = "PATH_CHALLENGE" /\ ~Closed
        THEN RecvPathChallenge(C, F)
    ELSE IF F.Type = "CONNECTION_CLOSE"
        THEN QuicConnTryClose(C, CloseFrameFlags(F), F.ErrorCode)
    ELSE C      \* ignored when closed, or handled by a collaborator

RecvFrames(C, Frames, Closed, Type) ==
    IF Frames = << >> THEN C
    ELSE IF ~FrameAllowed(Head(Frames), Type)   \* Disallowed frame type
        THEN [QuicConnTransportError(C, "QUIC_ERROR_FRAME_ENCODING_ERROR")
                EXCEPT !.hPayloadFailed = TRUE]  \* return FALSE
    ELSE IF Head(Frames).Type = "MALFORMED"     \* the frame does not decode
        THEN [QuicConnTransportError(C, "QUIC_ERROR_FRAME_ENCODING_ERROR")
                EXCEPT !.hPayloadFailed = TRUE]  \* return FALSE
    ELSE IF Head(Frames).Type = "CONNECTION_CLOSE"
        THEN RecvAfterClose(RecvFrame(C, Head(Frames), Closed), Tail(Frames),
                            Closed, Type)
        ELSE RecvFrames(RecvFrame(C, Head(Frames), Closed), Tail(Frames),
                        Closed, Type)

QuicConnRecvPayload(C, Packet) ==
    RecvFrames(C, Packet.Frames,
               C.State.ClosedLocally \/ C.State.ClosedRemotely, Packet.Type)

\* The datagrams of the chain, in order; a datagram that fails header
\* validation or decryption (Valid = FALSE) is dropped. The result carries
\* UpdateIdleTimeout.
RECURSIVE RecvChain(_, _, _)
RecvChain(C, Chain, UpdateIdleTimeout) ==
    IF Chain = << >> THEN [C |-> C, UpdateIdleTimeout |-> UpdateIdleTimeout]
    ELSE IF Head(Chain).Valid
        THEN RecvChain(QuicConnRecvPayload(C, Head(Chain)), Tail(Chain), TRUE)
        ELSE RecvChain(C, Tail(Chain), UpdateIdleTimeout)

RecvChainDone(R) ==
    IF R.UpdateIdleTimeout THEN QuicConnResetIdleTimeout(R.C) ELSE R.C

QuicConnRecvDatagrams(C, Chain) == RecvChainDone(RecvChain(C, Chain, FALSE))

\* The caller empties Connection->ReceiveQueue.
QuicConnFlushRecv(C, Queue) == QuicConnRecvDatagrams(C, Queue)

-----------------------------------------------------------------------------
(* API operations *)

QuicConnProcessApiOperation(C, ApiCtx) ==
    CASE ApiCtx.Api = QUIC_API_TYPE_CONN_CLOSE ->
            QuicConnCloseHandle(C)
      [] ApiCtx.Api = QUIC_API_TYPE_CONN_SHUTDOWN ->
            QuicConnShutdown(C, ApiCtx.Silent, ApiCtx.ErrorCode)
      [] ApiCtx.Api = QUIC_API_TYPE_GET_PARAM ->
            C

-----------------------------------------------------------------------------
(* Timer expiry *)

\* The loop of QuicConnTimerExpired over Temp: PACING and ACK_DELAY are
\* handled inline by the send module; every other type gets a TIMER_EXPIRED
\* operation unless its allocation fails (the types in Fail).
RECURSIVE QueueExpired(_, _, _)
QueueExpired(S, Temp, Fail) ==
    IF Temp = << >> THEN S
    ELSE
        LET Type == Head(Temp)
        IN  IF Type = QUIC_CONN_TIMER_ACK_DELAY \/ Type = QUIC_CONN_TIMER_PACING
                THEN QueueExpired(S, Tail(Temp), Fail)
            ELSE IF Type \in Fail
                THEN QueueExpired(S, Tail(Temp), Fail)   \* allocation failure
            ELSE QueueExpired(
                    QuicConnQueueOper(S,
                        QuicOperationAlloc(QUIC_OPER_TYPE_TIMER_EXPIRED, TimerArg(Type))),
                    Tail(Temp), Fail)

SeqToSet(Q) == {Q[k] : k \in 1 .. Len(Q)}

\* R is the result of the rotation of the array.
TimerExpiredQueue(C, S, R, Fail) ==
    [C |-> [C EXCEPT !.Timers = R.Timers,
                     !.hAllocFailed = @ \cup (SeqToSet(R.Temp) \cap Fail)],
     S |-> QueueExpired(S, R.Temp, Fail),
     \* one QuicSendProcessFlushSendOperation after the loop
     FlushSendImmediate |->
        SeqToSet(R.Temp) \cap
            {QUIC_CONN_TIMER_ACK_DELAY, QUIC_CONN_TIMER_PACING} # {}]

QuicConnTimerExpired(C, S, TimeNow, Fail) ==
    TimerExpiredQueue(C, S, TimerExpiredArray(C.Timers, TimeNow), Fail)


-----------------------------------------------------------------------------
(* The state machine *)

Threads == {"T1", "T2"}

\* The settings the connections run with:
\* <<SmoothedRtt (microseconds), IdleTimeoutMs, KeepAliveIntervalMs>>.
Settings == {<<5000, 0, 0>>, <<8700, 30, 0>>}
Phases(IsServer) == IF IsServer THEN {"new", "connected"} ELSE {"started", "connected"}

InitialDrain ==
    [Inside |-> {}, OperationCount |-> 0,
     \* history of the latest return: the result, whether operations
     \* remained queued, whether the handle was closed and whether the loop
     \* ended on an empty queue
     hReturned |-> FALSE, hRemain |-> FALSE, hHandleClosed |-> FALSE,
     hEmpty |-> FALSE,
     \* whether the latest return followed the inline send flush
     hFlushSend |-> FALSE,
     hDispatch |-> << >>]

\* hDropped: the latest chain of datagrams was dropped.
InitialEnv ==
    [Inputs |-> 0, AllocFailures |-> 0, AppCloseCalled |-> FALSE,
     hDropped |-> FALSE]

\* A connection past the "new" phase has received a valid packet at time 0.
StartOf(IsServer, Phase, Setting) ==
    LET C == InitialConnection(IsServer, Phase, Setting[1], Setting[2], Setting[3])
    IN  IF Phase = "new" THEN C ELSE QuicConnResetIdleTimeout(C)

Init ==
    /\ now = 0
    /\ \E IsServer \in BOOLEAN, Setting \in Settings :
         \E Phase \in Phases(IsServer) :
            Connection = StartOf(IsServer, Phase, Setting)
    /\ OperQ = InitialOperQ
    /\ ReceiveQueue = << >>
    /\ Worker = InitialWorker
    /\ Drain = InitialDrain
    /\ Env = InitialEnv

\* The application may use the handle: it owns one and has not closed it.
\* The producers leave the pair S behind.
Queued(S) == OperQ' = S.OperQ /\ Worker' = S.Worker

AppHasHandle ==
    /\ Connection.State.ExternalOwner
    /\ ~Env.AppCloseCalled
    /\ ~Connection.hAppCloseCalled

CanInput == Env.Inputs < MaxInputs /\ ~Connection.State.Uninitialized

\* An API call of the application, queued behind the pending operations.
ApiCall(ApiCtx) ==
    /\ CanInput /\ AppHasHandle
    /\ Queued(QuicConnQueueOper(Shared,
                    QuicOperationAlloc(QUIC_OPER_TYPE_API_CALL, ApiCtx)))
    /\ Env' = [Env EXCEPT !.Inputs = @ + 1,
                          !.AppCloseCalled = (ApiCtx.Api = QUIC_API_TYPE_CONN_CLOSE)]
    /\ UNCHANGED <<Connection, now, ReceiveQueue, Drain>>

\* An API call queued ahead of the pending operations.
ApiCallHighestPriority(ApiCtx) ==
    /\ CanInput /\ AppHasHandle
    /\ Queued(QuicConnQueueHighestPriorityOper(Shared,
                    QuicOperationAlloc(QUIC_OPER_TYPE_API_CALL, ApiCtx)))
    /\ Env' = [Env EXCEPT !.Inputs = @ + 1]
    /\ UNCHANGED <<Connection, now, ReceiveQueue, Drain>>

\* The datagrams the peer sends: one packet each, of a type that may carry
\* the frames.
Datagrams ==
    {[Valid |-> TRUE, Type |-> "1RTT", Frames |-> <<Frame("PING", FALSE, "-")>>],
     [Valid |-> TRUE, Type |-> "1RTT",
      Frames |-> <<Frame("CONNECTION_CLOSE", FALSE, "QUIC_ERROR_PROTOCOL_VIOLATION")>>],
     [Valid |-> TRUE, Type |-> "1RTT",
      Frames |-> <<Frame("CONNECTION_CLOSE", TRUE, "APP_ERROR")>>],
     [Valid |-> TRUE, Type |-> "1RTT",
      Frames |-> <<Frame("STREAMS_BLOCKED", FALSE, "-"),
                   Frame("CONNECTION_CLOSE", TRUE, "APP_ERROR")>>]}

\* STREAMS_BLOCKED is a 1-RTT frame: the peer sends it once connected.
Sendable(Datagram) ==
    \A k \in 1 .. Len(Datagram.Frames) :
        Datagram.Frames[k].Type = "STREAMS_BLOCKED" => Connection.State.Connected

\* The limit of the intake list. Its value is defined outside connection.c;
\* the model takes a small one, which the chains of the specification
\* IntakeSpec reach.
QUIC_MAX_RECEIVE_QUEUE_COUNT == 4

\* Connection->ReceiveQueueCount: the callers pass the length of the chain
\* as DatagramChainLength, so the count is the length of the list.
ReceiveQueueCount == Len(ReceiveQueue)

\* The body of QuicConnQueueRecvDatagram for the chain Chain: the chain is
\* dropped when the count has reached the limit, else it is appended and
\* FLUSH_RECV is queued if the list was empty.
QueueRecvChain(Chain, AllocOk) ==
    IF ReceiveQueueCount >= QUIC_MAX_RECEIVE_QUEUE_COUNT THEN
        /\ ReceiveQueue' = ReceiveQueue
        /\ Queued(Shared)
    ELSE
        /\ ReceiveQueue' = ReceiveQueue \o Chain
        /\ Queued(IF ReceiveQueueCount = 0 /\ AllocOk    \* QueueOperation
                    THEN QuicConnQueueOper(Shared,
                            QuicOperationAlloc(QUIC_OPER_TYPE_FLUSH_RECV, NoArg))
                    ELSE Shared)

\* The binding delivers one datagram.
QuicConnQueueRecvDatagram(Datagram, AllocOk) ==
    /\ CanInput /\ Sendable(Datagram)
    /\ AllocOk \/ (ReceiveQueue = << >> /\ Env.AllocFailures < MaxAllocFailures)
    /\ QueueRecvChain(<<Datagram>>, AllocOk)
    /\ Env' = [Env EXCEPT !.Inputs = @ + 1,
                          !.AllocFailures = IF AllocOk THEN @ ELSE @ + 1]
    /\ UNCHANGED <<Connection, now, Drain>>

\* The send module asks for a flush (QuicSendQueueFlush) unless one is pending.
QuicSendQueueFlush ==
    /\ CanInput
    /\ \A k \in 1 .. Len(OperQ.List) : OperQ.List[k].Type # QUIC_OPER_TYPE_FLUSH_SEND
    /\ Queued(QuicConnQueueOper(Shared,
                    QuicOperationAlloc(QUIC_OPER_TYPE_FLUSH_SEND, NoArg)))
    /\ Env' = [Env EXCEPT !.Inputs = @ + 1]
    /\ UNCHANGED <<Connection, now, ReceiveQueue, Drain>>

\* The clock reaches the expiration of the first armed timer.
AdvanceTime ==
    /\ ~Connection.State.Uninitialized
    /\ Connection.Timers[0].ExpirationTime # UINT64_MAX
    /\ Connection.Timers[0].ExpirationTime > now
    /\ Connection.Timers[0].ExpirationTime <= MaxTime
    /\ now' = Connection.Timers[0].ExpirationTime
    /\ UNCHANGED <<Connection, OperQ, ReceiveQueue, Worker, Drain, Env>>

\* The timer wheel of the worker finds the connection's first timer expired.
\* The wheel runs on the worker's thread, between drains.
TimerWheelDone(R) ==
    /\ Connection' = R.C
    /\ OperQ' = R.S.OperQ
    /\ Worker' = R.S.Worker

TimerWheelExpired(Fail) ==
    /\ ~Connection.State.Uninitialized
    /\ Connection.Timers[0].ExpirationTime <= now
    /\ Drain.Inside = {}
    /\ Fail \subseteq SeqToSet(TimerExpiredArray(Connection.Timers, now).Temp)
    /\ Env.AllocFailures + Cardinality(Fail) <= MaxAllocFailures
    /\ TimerWheelDone(QuicConnTimerExpired(Connection, Shared, now, Fail))
    /\ Env' = [Env EXCEPT !.AllocFailures = @ + Cardinality(Fail)]
    /\ UNCHANGED <<now, ReceiveQueue, Drain>>

-----------------------------------------------------------------------------
(* The worker and QuicConnDrainOperations *)

\* A worker that hands the connection to a thread whenever it has queued
\* work, whether or not another thread is processing it.
QuicWorkerCanProcessAnyTime(W) == W.HasQueuedWork

\* A thread of the worker may pick the connection up when it has queued work
\* and no thread is processing it.
QuicWorkerCanProcess(W) == W.HasQueuedWork /\ ~W.Processing

\* QuicConnFatalError: the connection is closed locally, silently, with the
\* status of the failure.
QuicConnFatalError(C, Status) ==
    QuicConnCloseLocally(C,
        QUIC_CLOSE_INTERNAL_SILENT \cup {QUIC_CLOSE_QUIC_STATUS}, Status)

\* The part of QuicConnInitializeCrypto the model follows, when it succeeds.
QuicConnInitializeCrypto(C) ==
    IF C.KeepAliveIntervalMs # 0
        THEN QuicConnTimerSet(C, QUIC_CONN_TIMER_KEEP_ALIVE, C.KeepAliveIntervalMs)
        ELSE C

\* The head of QuicConnDrainOperations: a server connection is initialized
\* lazily, which fails when CryptoOk is FALSE.
DrainBegin(C, CryptoOk) ==
    IF ~C.State.Initialized THEN
        IF ~CryptoOk
            THEN QuicConnFatalError(C, "QUIC_STATUS_OUT_OF_MEMORY")
            ELSE [QuicConnInitializeCrypto(C) EXCEPT !.State.Initialized = TRUE]
    ELSE C

\* The switch of QuicConnDrainOperations on the type of the operation.
DrainDispatch(C, Oper, Queue) ==
    CASE Oper.Type = QUIC_OPER_TYPE_API_CALL ->
            QuicConnProcessApiOperation(C, Oper.Arg)
      [] Oper.Type = QUIC_OPER_TYPE_FLUSH_RECV ->
            QuicConnFlushRecv(C, Queue)
      [] Oper.Type = QUIC_OPER_TYPE_FLUSH_SEND ->
            C
      [] Oper.Type = QUIC_OPER_TYPE_TIMER_EXPIRED ->
            QuicConnProcessExpiredTimer(C, Oper.Arg.Timer)

\* The loop of QuicConnDrainOperations without the limit on the count.
DrainLoopConditionNoLimit(C, OperationCount) == ~C.State.HandleClosed

\* The loop of QuicConnDrainOperations goes on.
DrainLoopCondition(C, OperationCount) ==
    ~C.State.HandleClosed /\ OperationCount < MaxOperationsPerDrain

\* OperationCount when the loop has ended, after Dispatched operations: the
\* test of the count (OperationCount++ < MaxOperationCount) adds one each
\* time it is reached, also when it fails and when the dequeue that follows
\* it finds the queue empty; a closed handle ends the loop ahead of it.
DrainOperationCount(C, Dispatched) ==
    IF C.State.HandleClosed THEN Dispatched ELSE Dispatched + 1

\* The inline send flush after the loop is due.
DrainFlushSend(C, OperationCount) ==
    /\ OperationCount >= MaxOperationsPerDrain
    /\ "QUIC_CONN_SEND_FLAG_ACK" \in C.SendFlags
    /\ ~C.State.HandleClosed

\* The tail of QuicConnDrainOperations, after the loop.
DrainNotify(C) ==
    IF C.State.SendShutdownCompleteNotif /\ ~C.State.HandleClosed
        THEN QuicConnOnShutdownComplete(
                [C EXCEPT !.State.SendShutdownCompleteNotif = FALSE])
        ELSE C

\* The connection of a closed handle is left as it is.
DrainUninitializeNever(C) == C

DrainUninitialize(C) ==
    IF C.State.HandleClosed /\ ~C.State.Uninitialized
        THEN QuicConnUninitialize(C)
        ELSE C

DrainFinish(C) == DrainUninitialize(DrainNotify(C))

\* A thread of the worker picks the connection up and enters
\* QuicConnDrainOperations.
WorkerStartDrain(t, CryptoOk) ==
    /\ QuicWorkerCanProcess(Worker)
    /\ ~Connection.State.Uninitialized
    /\ CryptoOk \/ ~Connection.State.Initialized
    /\ Worker' = [Worker EXCEPT !.HasQueuedWork = FALSE, !.Processing = TRUE]
    /\ Drain' = [Drain EXCEPT !.Inside = @ \cup {t}, !.OperationCount = 0]
    /\ Connection' = DrainBegin(Connection, CryptoOk)
    /\ UNCHANGED <<now, OperQ, ReceiveQueue, Env>>

\* The state one iteration of the loop leaves: Oper is the operation it
\* dequeued, Q the queue without it and C the connection after the dispatch.
DrainStepDone(C, Q, Oper, MoreToSend) ==
    /\ Connection' = [C EXCEPT !.hCallbackClose = 0]
    /\ OperQ' = IF MoreToSend THEN RequeueFlushSend(Q, Oper) ELSE Q
    /\ ReceiveQueue' = IF Oper.Type = QUIC_OPER_TYPE_FLUSH_RECV
                         THEN << >> ELSE ReceiveQueue
    /\ Drain' = [Drain EXCEPT !.OperationCount = @ + 1,
                              !.hDispatch = <<Oper>>]

\* One iteration of the loop: the head of the queue is dispatched.
\* CallbackClose: the callback of this iteration (1: the first, 2: the
\* second) in which the application closes the handle; 0 for none.
\* MoreToSend: the result of QuicSendProcessFlushSendOperation.
DrainStep(t, CallbackClose, MoreToSend) ==
    /\ t \in Drain.Inside
    /\ DrainLoopCondition(Connection, Drain.OperationCount)
    /\ OperQ.List # << >>
    /\ CallbackClose = 0 \/ AppHasHandle
    /\ MoreToSend =>
            /\ Head(OperQ.List).Type = QUIC_OPER_TYPE_FLUSH_SEND
            /\ Env.Inputs < MaxInputs
    /\ DrainStepDone(
            DrainDispatch([Connection EXCEPT !.hCallbackClose = CallbackClose],
                          Head(OperQ.List), ReceiveQueue),
            QuicOperationDequeue([OperQ EXCEPT !.hInserts = << >>]).OperQ,
            Head(OperQ.List), MoreToSend)
    /\ Env' = [Env EXCEPT !.Inputs = IF MoreToSend THEN @ + 1 ELSE @]
    /\ UNCHANGED <<now, Worker>>

\* HasMoreWorkToDo without the test of HandleClosed.
DrainResultIgnoringHandle(C, Dequeued) == ~Dequeued

\* HasMoreWorkToDo, the result of QuicConnDrainOperations: it starts TRUE and
\* becomes FALSE when QuicOperationDequeue returns NULL or when the handle is
\* closed.
DrainResult(C, Dequeued) == ~Dequeued /\ ~C.State.HandleClosed

\* The return of QuicConnDrainOperations: C is the connection it leaves and
\* Dequeued tells that the loop ended on an empty queue. The worker queues
\* the connection again when the result is TRUE.
DrainReturn(t, C, Dequeued, FlushSend) ==
    /\ Connection' = [C EXCEPT !.hCallbackClose = 0]
    /\ OperQ' = IF C.State.Uninitialized
                    THEN QuicOperationQueueClear(OperQ)
                    ELSE OperQ
    /\ Worker' = [Worker EXCEPT
                    !.Processing = FALSE,
                    !.HasQueuedWork = @ \/ DrainResult(C, Dequeued),
                    !.hLastThread = t]
    /\ Drain' = [Drain EXCEPT !.Inside = @ \ {t},
                              !.hReturned = DrainResult(C, Dequeued),
                              !.hRemain = (~C.State.Uninitialized /\ OperQ.List # << >>),
                              !.hHandleClosed = C.State.HandleClosed,
                              !.hEmpty = Dequeued,
                              !.hFlushSend = FlushSend,
                              !.hDispatch = << >>]

\* The loop ends (the handle is closed, the count is exhausted or the queue
\* is empty) and QuicConnDrainOperations returns.
DrainEnd(t, CallbackClose) ==
    /\ t \in Drain.Inside
    /\ ~DrainLoopCondition(Connection, Drain.OperationCount) \/ OperQ.List = << >>
    /\ CallbackClose = 0 \/ AppHasHandle
    /\ DrainReturn(t,
            DrainFinish([Connection EXCEPT !.hCallbackClose = CallbackClose]),
            DrainLoopCondition(Connection, Drain.OperationCount),
            DrainFlushSend(Connection,
                DrainOperationCount(Connection, Drain.OperationCount)))
    /\ UNCHANGED <<now, ReceiveQueue, Env>>

-----------------------------------------------------------------------------
(* Specifications *)

\* The close state machine: one worker thread, the application's close and
\* shutdown calls, the peer's datagrams and the timers.
CloseApiCalls ==
    {ApiArg(QUIC_API_TYPE_CONN_CLOSE, FALSE, "-"),
     ApiArg(QUIC_API_TYPE_CONN_SHUTDOWN, FALSE, "APP_ERROR"),
     ApiArg(QUIC_API_TYPE_CONN_SHUTDOWN, TRUE, "APP_ERROR")}

Next ==
    \/ \E ApiCtx \in CloseApiCalls : ApiCall(ApiCtx)
    \/ \E Datagram \in Datagrams : QuicConnQueueRecvDatagram(Datagram, TRUE)
    \/ AdvanceTime
    \/ \E Fail \in SUBSET TimerTypes : TimerWheelExpired(Fail)
    \/ \E CryptoOk \in BOOLEAN : WorkerStartDrain("T1", CryptoOk)
    \/ \E CallbackClose \in 0 .. 2 : DrainStep("T1", CallbackClose, FALSE)
    \/ \E CallbackClose \in 0 .. 1 : DrainEnd("T1", CallbackClose)

Spec == Init /\ [][Next]_vars

\* The operation queue and the worker: every producer, two worker threads,
\* on a connected client that keeps the connection alive.
QueueInit ==
    /\ now = 0
    /\ Connection = StartOf(FALSE, "connected", <<5000, 0, 25>>)
    /\ OperQ = InitialOperQ
    /\ ReceiveQueue = << >>
    /\ Worker = InitialWorker
    /\ Drain = InitialDrain
    /\ Env = InitialEnv

QueueApiCalls == {ApiArg(QUIC_API_TYPE_GET_PARAM, FALSE, "-")}
PriorityApiCalls == {ApiArg(QUIC_API_TYPE_CONN_SHUTDOWN, FALSE, "APP_ERROR")}

QueueDatagrams ==
    {D \in Datagrams : \A k \in 1 .. Len(D.Frames) : D.Frames[k].Type = "PING"}

QueueNext ==
    \/ \E ApiCtx \in QueueApiCalls : ApiCall(ApiCtx)
    \/ \E ApiCtx \in PriorityApiCalls : ApiCallHighestPriority(ApiCtx)
    \/ \E Datagram \in QueueDatagrams, AllocOk \in BOOLEAN :
            QuicConnQueueRecvDatagram(Datagram, AllocOk)
    \/ QuicSendQueueFlush
    \/ AdvanceTime
    \/ \E Fail \in SUBSET TimerTypes : TimerWheelExpired(Fail)
    \/ \E t \in Threads : WorkerStartDrain(t, TRUE)
    \/ \E t \in Threads, MoreToSend \in BOOLEAN : DrainStep(t, 0, MoreToSend)
    \/ \E t \in Threads : DrainEnd(t, 0)

QueueSpec == QueueInit /\ [][QueueNext]_vars

-----------------------------------------------------------------------------
(* The packets of a datagram: keys, packet numbers and connection IDs *)

\* The key types the model follows, in the order of the handshake; the
\* 0-RTT key (type 1) is installed on no connection but the one that takes
\* 0-RTT packets.
QUIC_PACKET_KEY_INITIAL   == 0
QUIC_PACKET_KEY_0_RTT     == 1
QUIC_PACKET_KEY_HANDSHAKE == 2
QUIC_PACKET_KEY_1_RTT     == 3
KeyTypes ==
    {QUIC_PACKET_KEY_INITIAL, QUIC_PACKET_KEY_HANDSHAKE, QUIC_PACKET_KEY_1_RTT}

\* The limit of a packet space's list of deferred datagrams. Its value is
\* defined outside connection.c; the model takes a small one.
QUIC_MAX_PENDING_DATAGRAMS == 2

QuicPacketTypeToKeyType(Type) ==
    CASE Type = "INITIAL"   -> QUIC_PACKET_KEY_INITIAL
      [] Type = "0RTT"      -> QUIC_PACKET_KEY_0_RTT
      [] Type = "HANDSHAKE" -> QUIC_PACKET_KEY_HANDSHAKE
      [] Type = "1RTT"      -> QUIC_PACKET_KEY_1_RTT

EncryptLevels ==
    {"QUIC_ENCRYPT_LEVEL_INITIAL", "QUIC_ENCRYPT_LEVEL_HANDSHAKE",
     "QUIC_ENCRYPT_LEVEL_1_RTT"}

QuicKeyTypeToEncryptLevel(KeyType) ==
    CASE KeyType = QUIC_PACKET_KEY_INITIAL   -> "QUIC_ENCRYPT_LEVEL_INITIAL"
      [] KeyType = QUIC_PACKET_KEY_0_RTT     -> "QUIC_ENCRYPT_LEVEL_1_RTT"
      [] KeyType = QUIC_PACKET_KEY_HANDSHAKE -> "QUIC_ENCRYPT_LEVEL_HANDSHAKE"
      [] KeyType = QUIC_PACKET_KEY_1_RTT     -> "QUIC_ENCRYPT_LEVEL_1_RTT"

\* A packet space. AckTracker is the set of the packet numbers received
\* (QuicAckTrackerAddPacketNumber); hAcked those handed to
\* QuicAckTrackerAckPacket.
InitialPacketSpace ==
    [NextRecvPacketNumber |-> 0, AckTracker |-> {}, hAcked |-> {},
     DeferredDatagrams |-> << >>, DeferredDatagramsCount |-> 0]

\* The connection IDs of the model: D0 is the destination CID a client
\* generates, C0 the source CID of the client's first packet, S1 and S2 the
\* CIDs a server chooses, NewCid(n) the CID of the NEW_CONNECTION_ID frame
\* of sequence number n.
D0 == Cid(<<"D", 0>>, 8)
C0 == Cid(<<"C", 0>>, 8)
S1 == Cid(<<"S", 1>>, 8)
S2 == Cid(<<"S", 2>>, 16)
\* No CID: a NULL pointer.
NULL_CID == Cid(<<"NULL", 0>>, 0)
NewCid(Sequence) == Cid(<<"N", Sequence>>, 8)

\* QuicConnAlloc: the fields of the packet path right after construction, for
\* a connection whose read key is ReadKey. A server starts with the source
\* CID of the client's packet in DestCIDs, a client with a random one.
QuicConnAlloc(IsServer, Phase, ReadKey) ==
    [StartOf(IsServer, Phase, <<5000, 0, 0>>) EXCEPT
        !.State = @ @@ [GotFirstServerResponse |-> FALSE,
                        ReceivedRetryPacket |-> FALSE,
                        ShareBinding |-> IsServer,
                        HandshakeConfirmed |-> FALSE,
                        InitiatedCidUpdate |-> FALSE]] @@
    [ ReadKey |-> ReadKey,
      ReadKeys |-> {K \in KeyTypes : K <= ReadKey},
      Packets |-> [L \in EncryptLevels |-> InitialPacketSpace],
      Stats |-> [DuplicatePackets |-> 0, DecryptionFailures |-> 0,
                 DroppedPackets |-> 0],
      DestCIDs |-> <<QuicCidNewDestination(IF IsServer THEN C0 ELSE D0)>>,
      DestCIDCount |-> (IF IsServer THEN 0 ELSE 1),
      OrigCID |-> NULL_CID,
      InitialToken |-> "NULL",
      SourceCIDs |-> <<IF IsServer
                          THEN [QuicCidNewSource(D0) EXCEPT
                                   !.IsInitial = TRUE, !.UsedByPeer = TRUE]
                          ELSE QuicCidNewSource(NULL_CID)>>,
      NextSourceCidSequenceNumber |-> (IF IsServer THEN 0 ELSE 1),
      \* history
      hIgnoredCIDs |-> 0,         \* the NEW_CONNECTION_ID frames ignored
      hPayloadFailed |-> FALSE,   \* QuicConnRecvPayload returned FALSE
      hRestart |-> << >>,         \* the CompleteReset of every QuicConnRestart
      hLast |-> [Outcome |-> "none"]  \* the latest packet and what became of it
    ]

\* The outcome of the packet Packet, with the connection as it was before.
Outcome(C, Old, Packet, What) ==
    [C EXCEPT !.hLast = [Outcome |-> What, Packet |-> Packet,
                         Old |-> [Old EXCEPT !.hLast = [Outcome |-> "none"]]]]

DroppedPacket(C) == [C EXCEPT !.Stats.DroppedPackets = @ + 1]

\* QuicConnUpdateDestCID: the first destination CID becomes the source CID of
\* the packet. The entry is reused when the new CID fits, else a new one is
\* allocated (AllocOk). The result carries the return value.
UpdateDestCIDReplace(C, Packet, AllocOk) ==
    IF Packet.SourceCID.Length <= Head(C.DestCIDs).CID.Length
        THEN [C |-> [C EXCEPT !.DestCIDs[1].IsInitial = FALSE,
                              !.DestCIDs[1].CID = Packet.SourceCID],
              Ok |-> TRUE]
    ELSE IF ~AllocOk
        THEN [C |-> QuicConnFatalError(
                        [C EXCEPT !.DestCIDs = Tail(@), !.DestCIDCount = @ - 1],
                        "QUIC_STATUS_OUT_OF_MEMORY"),
              Ok |-> FALSE]
        ELSE [C |-> [C EXCEPT !.DestCIDs =
                          <<QuicCidNewDestination(Packet.SourceCID)>> \o Tail(@)],
              Ok |-> TRUE]

QuicConnUpdateDestCID(C, Packet, AllocOk) ==
    IF Packet.SourceCID # Head(C.DestCIDs).CID
        THEN UpdateDestCIDReplace(C, Packet, AllocOk)
        ELSE [C |-> C, Ok |-> TRUE]

\* QuicConnRestart: the reset of the packet spaces, of loss detection, of the
\* send state and of the crypto state belongs to collaborators.
QuicConnRestart(C, CompleteReset) ==
    [C EXCEPT !.hRestart = Append(@, CompleteReset)]

\* The end of QuicConnRecvRetry, once the destination CID has been updated:
\* the Initial keys are made anew from the new CID (KeysOk).
RecvRetryAccept(C, KeysOk) ==
    IF KeysOk
        THEN QuicConnRestart(
                [C EXCEPT !.State.GotFirstServerResponse = TRUE,
                          !.State.ReceivedRetryPacket = TRUE], FALSE)
        ELSE QuicConnFatalError(
                [C EXCEPT !.State.GotFirstServerResponse = TRUE,
                          !.State.ReceivedRetryPacket = TRUE,
                          !.ReadKeys = @ \ {QUIC_PACKET_KEY_INITIAL}],
                "QUIC_STATUS_INTERNAL_ERROR")

RecvRetryUpdate(R, KeysOk) ==
    IF R.Ok THEN RecvRetryAccept(R.C, KeysOk) ELSE R.C

\* QuicConnRecvRetry. Failure names the step that fails, if any: the
\* allocation of "InitialToken", of "OrigCID" or of the "DestCID", or the
\* creation of the "InitialKeys".
QuicConnRecvRetry(C, Packet, Failure) ==
    IF QuicConnIsServer(C) THEN C
    ELSE IF C.State.GotFirstServerResponse THEN C
    ELSE IF Packet.OrigDestCID # Head(C.DestCIDs).CID THEN C
    ELSE IF Failure = "InitialToken" THEN [C EXCEPT !.InitialToken = "NULL"]
    ELSE IF Failure = "OrigCID"
        THEN [C EXCEPT !.InitialToken = Packet.Token, !.OrigCID = NULL_CID]
    ELSE RecvRetryUpdate(
            QuicConnUpdateDestCID(
                [C EXCEPT !.InitialToken = Packet.Token,
                          !.OrigCID = Packet.OrigDestCID],
                Packet, Failure # "DestCID"),
            Failure # "InitialKeys")

\* The datagram as it lies on a deferred list: Packet->DecryptionDeferred is
\* set, and hDeferrals counts the times the datagram was put on a list.
DeferredPacket(Packet) ==
    [Packet EXCEPT !.DecryptionDeferred = TRUE, !.hDeferrals = @ + 1]

\* The datagram joins the deferred list whatever its length.
DeferDatagramNoLimit(C, Packet, EncryptLevel) ==
    [C EXCEPT !.Packets[EncryptLevel].DeferredDatagramsCount = @ + 1,
              !.Packets[EncryptLevel].DeferredDatagrams =
                    Append(@, DeferredPacket(Packet))]

\* QuicConnGetKeyOrDeferDatagram, when the key is not there yet: the datagram
\* joins the deferred list of its packet space unless the list is full.
DeferDatagram(C, Packet, EncryptLevel) ==
    IF C.Packets[EncryptLevel].DeferredDatagramsCount = QUIC_MAX_PENDING_DATAGRAMS
        THEN C
        ELSE [C EXCEPT
                !.Packets[EncryptLevel].DeferredDatagramsCount = @ + 1,
                !.Packets[EncryptLevel].DeferredDatagrams =
                    Append(@, DeferredPacket(Packet))]

\* The stateless reset tokens the connection has stored.
ResetTokens(C) ==
    {C.DestCIDs[k].ResetToken :
        k \in {j \in 1 .. Len(C.DestCIDs) : C.DestCIDs[j].HasResetToken}}

\* The stateless reset closes the connection as a transport error does.
RecvStatelessResetNotSilent(C) ==
    [C |-> QuicConnCloseLocally(C,
                QUIC_CLOSE_INTERNAL \cup {QUIC_CLOSE_QUIC_STATUS},
                "QUIC_STATUS_ABORTED"),
     Ok |-> FALSE, What |-> "stateless reset"]

\* The packet is a stateless reset: the connection is closed silently.
RecvStatelessReset(C) ==
    [C |-> QuicConnCloseLocally(C,
                QUIC_CLOSE_INTERNAL_SILENT \cup {QUIC_CLOSE_QUIC_STATUS},
                "QUIC_STATUS_ABORTED"),
     Ok |-> FALSE, What |-> "stateless reset"]

\* A duplicate is dropped without being counted.
RecvDuplicateUncounted(C) ==
    [C |-> C, Ok |-> FALSE, What |-> "duplicate"]

\* The packet number is in the ACK tracker already: the packet is counted
\* and dropped.
RecvDuplicate(C) ==
    [C |-> [C EXCEPT !.Stats.DuplicatePackets = @ + 1],
     Ok |-> FALSE, What |-> "duplicate"]

\* The part of QuicConnRecvDecryptAndAuthenticate that follows the
\* authentication of a packet whose number is new.
RecvAuthenticated(C, Packet) ==
    IF Packet.Type = "HANDSHAKE" /\ QuicConnIsServer(C)
        THEN [C EXCEPT !.ReadKeys = @ \ {QUIC_PACKET_KEY_INITIAL}]
        ELSE C

\* QuicConnRecvDecryptAndAuthenticate; the reserved bits of the header are
\* zero. The result carries the return value.
QuicConnRecvDecryptAndAuthenticate(C, Packet, EncryptLevel) ==
    IF ~Packet.Decrypts THEN
        IF /\ ~QuicConnIsServer(C)
           /\ Packet.Type = "1RTT"      \* IsShortHeader
           /\ Packet.LongEnough
           /\ Packet.ResetToken \in ResetTokens(C)
            THEN RecvStatelessReset(C)
            ELSE [C |-> [C EXCEPT !.Stats.DecryptionFailures = @ + 1],
                  Ok |-> FALSE, What |-> "decryption failure"]
    ELSE IF Packet.PacketNumber \in C.Packets[EncryptLevel].AckTracker
        THEN RecvDuplicate(C)
    ELSE IF Packet.Type = "INITIAL" /\ ~C.State.Connected /\ ~QuicConnIsServer(C)
        THEN QuicConnUpdateDestCID(
                [C EXCEPT !.Packets[EncryptLevel].AckTracker =
                              @ \cup {Packet.PacketNumber}],
                Packet, Packet.AllocOk) @@ [What |-> "CID update failed"]
    ELSE [C |-> RecvAuthenticated(
                    [C EXCEPT !.Packets[EncryptLevel].AckTracker =
                                  @ \cup {Packet.PacketNumber}], Packet),
          Ok |-> TRUE, What |-> "-"]

\* The end of QuicConnRecvPayload (Done), when the frames were read.
RecvPayloadDone(C, Packet, EncryptLevel) ==
    IF C.State.HandleShutdown \/ C.State.HandleClosed
        THEN C      \* not acked (connection is closed)
        ELSE [C EXCEPT
                !.Packets[EncryptLevel].NextRecvPacketNumber =
                    IF @ <= Packet.PacketNumber THEN Packet.PacketNumber + 1 ELSE @,
                !.Packets[EncryptLevel].hAcked = @ \cup {Packet.PacketNumber}]

\* QuicConnRecvPayload with its end. The result carries the return value.
RecvPayloadResult(C, Packet, EncryptLevel) ==
    IF C.hPayloadFailed
        THEN [C |-> C, Ok |-> FALSE, What |-> "payload failed"]
        ELSE [C |-> QuicConnRecvPostProcessing(
                        RecvPayloadDone(C, Packet, EncryptLevel), Packet),
              Ok |-> TRUE, What |-> "processed"]

RecvPayloadOf(C, Packet, EncryptLevel) ==
    RecvPayloadResult(
        QuicConnRecvPayload([C EXCEPT !.hPayloadFailed = FALSE], Packet),
        Packet, EncryptLevel)

\* QuicConnRecvBatch for one packet.
RecvBatchDecrypted(R, Packet, EncryptLevel) ==
    IF R.Ok THEN RecvPayloadOf(R.C, Packet, EncryptLevel) ELSE R

RecvBatchCount(R) ==
    IF R.Ok THEN R ELSE [R EXCEPT !.C = DroppedPacket(@)]

QuicConnRecvBatch(C, Packet, EncryptLevel) ==
    RecvBatchCount(
        RecvBatchDecrypted(
            QuicConnRecvDecryptAndAuthenticate(C, Packet, EncryptLevel),
            Packet, EncryptLevel))

\* One datagram of QuicConnRecvDatagrams, holding one packet: QuicConnRecvHeader
\* with QuicConnRecvRetry and QuicConnGetKeyOrDeferDatagram, then
\* QuicConnRecvBatch. The result carries CompletelyValid as Ok.
RecvPacketKeyed(C, Packet, KeyType) ==
    IF KeyType > C.ReadKey
        THEN [C |-> DeferDatagram(C, Packet, QuicKeyTypeToEncryptLevel(KeyType)),
              Ok |-> FALSE, What |-> "deferred or dropped"]
    ELSE IF KeyType \notin C.ReadKeys
        THEN [C |-> DroppedPacket(C), Ok |-> FALSE, What |-> "key discarded"]
        ELSE QuicConnRecvBatch(C, Packet, QuicKeyTypeToEncryptLevel(KeyType))

RecvPacketResult(R, Old, Packet) ==
    [C |-> Outcome(R.C, Old, Packet, R.What), Ok |-> R.Ok]

RecvPacket(C, Packet) ==
    IF Packet.Type = "RETRY"
        THEN [C |-> Outcome(DroppedPacket(QuicConnRecvRetry(C, Packet, Packet.Failure)),
                            C, Packet, "retry"),
              Ok |-> FALSE]
        ELSE RecvPacketResult(
                RecvPacketKeyed(C, Packet, QuicPacketTypeToKeyType(Packet.Type)),
                C, Packet)

\* QuicConnRecvHeader has put the datagram of Packet on the deferred list of
\* the packet's level (Packet->DecryptionDeferred).
DecryptionDeferred(C, Old, Packet) ==
    /\ Packet.Type # "RETRY"
    /\ C.Packets[QuicKeyTypeToEncryptLevel(QuicPacketTypeToKeyType(Packet.Type))]
            .DeferredDatagramsCount >
       Old.Packets[QuicKeyTypeToEncryptLevel(QuicPacketTypeToKeyType(Packet.Type))]
            .DeferredDatagramsCount

\* NextPacket: the packet that follows a long-header packet in its datagram,
\* if any. A Retry packet fills its datagram, a short-header packet ends it,
\* and a deferred datagram is left for its key. On a deferred list the
\* datagram starts at the packet that waits for the key.
NextPacket(C, Old, Packet) ==
    IF \/ Packet.Type \in {"RETRY", "1RTT"}
       \/ DecryptionDeferred(C, Old, Packet)
       \/ Packet.Coalesced = << >>
        THEN << >>
        ELSE <<[Head(Packet.Coalesced) EXCEPT
                    !.Coalesced = Tail(Packet.Coalesced),
                    !.hDeferrals = Packet.hDeferrals]>>

\* QuicConnRecvDatagrams, packet by packet. The header of a datagram is
\* read before the short-header packets batched ahead of it are decrypted;
\* with one kind of packet in a chain the order makes no difference.
RECURSIVE RecvPackets(_, _, _)
RecvPacketsNext(R, Old, Chain, UpdateIdleTimeout) ==
    RecvPackets(R.C, NextPacket(R.C, Old, Head(Chain)) \o Tail(Chain),
                UpdateIdleTimeout \/ R.Ok)

RecvPackets(C, Chain, UpdateIdleTimeout) ==
    IF Chain = << >> THEN [C |-> C, UpdateIdleTimeout |-> UpdateIdleTimeout]
    ELSE RecvPacketsNext(RecvPacket(C, Head(Chain)), C, Chain, UpdateIdleTimeout)

QuicConnRecvPackets(C, Chain) == RecvChainDone(RecvPackets(C, Chain, FALSE))

\* QuicConnFlushDeferred: the deferred datagrams of every key type up to
\* ReadKey whose key is there are run again.
FlushDeferredLevel(C, EncryptLevel) ==
    IF C.Packets[EncryptLevel].DeferredDatagrams # << >>
        THEN QuicConnRecvPackets(
                [C EXCEPT !.Packets[EncryptLevel].DeferredDatagramsCount = 0,
                          !.Packets[EncryptLevel].DeferredDatagrams = << >>],
                C.Packets[EncryptLevel].DeferredDatagrams)
        ELSE C

FlushDeferredKey(C, KeyType) ==
    IF KeyType <= C.ReadKey /\ KeyType \in C.ReadKeys
        THEN FlushDeferredLevel(C, QuicKeyTypeToEncryptLevel(KeyType))
        ELSE C

QuicConnFlushDeferred(C) ==
    FlushDeferredKey(
        FlushDeferredKey(C, QUIC_PACKET_KEY_HANDSHAKE), QUIC_PACKET_KEY_1_RTT)

\* The receive intake: the binding delivers chains of datagrams of any
\* length up to MaxChainLength while one worker thread drains.
MaxChainLength == 3
MaxIntakeCalls == 3

PingDatagram ==
    [Valid |-> TRUE, Type |-> "1RTT", Frames |-> <<Frame("PING", FALSE, "-")>>]
Chains == {[k \in 1 .. n |-> PingDatagram] : n \in 1 .. MaxChainLength}

QuicConnQueueRecvDatagramChain(Chain) ==
    /\ Env.Inputs < MaxIntakeCalls
    /\ ~Connection.State.Uninitialized
    /\ QueueRecvChain(Chain, TRUE)
    /\ Env' = [Env EXCEPT !.Inputs = @ + 1,
                          !.hDropped = (ReceiveQueue' = ReceiveQueue)]
    /\ UNCHANGED <<Connection, now, Drain>>

IntakeNext ==
    \/ \E Chain \in Chains : QuicConnQueueRecvDatagramChain(Chain)
    \/ WorkerStartDrain("T1", TRUE)
    \/ DrainStep("T1", 0, FALSE)
    \/ DrainEnd("T1", 0)

IntakeSpec == QueueInit /\ [][IntakeNext]_vars

\* The packet path: the worker processes FLUSH_RECV for one datagram of the
\* peer at a time, and the crypto layer installs the read keys in order.
MaxRecvCalls == 3

PacketNumbers == {0, 1}

NewPacket(Type, PacketNumber, Decrypts, LongEnough, ResetToken, Frames) ==
    [Type |-> Type, PacketNumber |-> PacketNumber, Decrypts |-> Decrypts,
     LongEnough |-> LongEnough, ResetToken |-> ResetToken,
     SourceCID |-> D0, DestCID |-> NULL_CID, AllocOk |-> TRUE,
     Frames |-> Frames, Coalesced |-> << >>, DecryptionDeferred |-> FALSE,
     hDeferrals |-> 0]

NewConnectionIDFrame(Sequence, ResetToken) ==
    [Type |-> "NEW_CONNECTION_ID", Sequence |-> Sequence,
     CID |-> NewCid(Sequence), ResetToken |-> ResetToken]

\* The payloads of the packets of each type: a NEW_CONNECTION_ID frame and an
\* application's CONNECTION_CLOSE need the 1-RTT key.
RecvPayloads(Type) ==
    {<<Frame("PING", FALSE, "-")>>} \cup
    (IF Type # "HANDSHAKE" THEN {<<Frame("MALFORMED", FALSE, "-")>>} ELSE {}) \cup
    (IF Type = "1RTT"
        THEN {<<Frame("CONNECTION_CLOSE", TRUE, "APP_ERROR")>>,
              <<NewConnectionIDFrame(1, "T1")>>}
        ELSE {})

\* The packets of the peer, and the packets of anyone that do not decrypt.
RecvPacketSet ==
    UNION {{NewPacket(Type, PacketNumber, TRUE, TRUE, "T0", Frames) :
                PacketNumber \in PacketNumbers, Frames \in RecvPayloads(Type)} :
           Type \in {"INITIAL", "HANDSHAKE", "1RTT"}}
    \cup
    {NewPacket("1RTT", 0, FALSE, TRUE, "T1", << >>),
     NewPacket("1RTT", 0, FALSE, FALSE, "T1", << >>),
     NewPacket("1RTT", 0, FALSE, TRUE, "T0", << >>),
     NewPacket("HANDSHAKE", 0, FALSE, TRUE, "T1", << >>)}

RecvInit ==
    /\ now = 0
    /\ \E IsServer \in BOOLEAN :
         \/ Connection = QuicConnAlloc(IsServer, "started", QUIC_PACKET_KEY_INITIAL)
         \/ Connection = QuicConnAlloc(IsServer, "connected", QUIC_PACKET_KEY_1_RTT)
    /\ OperQ = InitialOperQ
    /\ ReceiveQueue = << >>
    /\ Worker = InitialWorker
    /\ Drain = InitialDrain
    /\ Env = InitialEnv

\* A drain whose only operation is FLUSH_RECV, with Chain on the intake list.
\* Once a failed allocation has left DestCIDs empty, QuicConnRecvRetry and
\* QuicConnUpdateDestCID would read the first entry of an empty list; the
\* model does not follow the connection further.
FlushRecvDrain(Chain) ==
    /\ Env.Inputs < MaxRecvCalls
    /\ Connection.DestCIDs # << >>
    /\ Connection' = DrainFinish(QuicConnRecvPackets(Connection, Chain))
    /\ Env' = [Env EXCEPT !.Inputs = @ + 1]
    /\ UNCHANGED <<now, OperQ, ReceiveQueue, Worker, Drain>>

\* The crypto layer installs the next read key and flushes the datagrams
\* deferred for it.
NextKey(KeyType) ==
    IF KeyType = QUIC_PACKET_KEY_INITIAL
        THEN QUIC_PACKET_KEY_HANDSHAKE ELSE QUIC_PACKET_KEY_1_RTT

CryptoNewReadKey ==
    /\ Connection.ReadKey < QUIC_PACKET_KEY_1_RTT
    /\ Connection' =
         DrainFinish(QuicConnFlushDeferred(
            [Connection EXCEPT !.ReadKey = NextKey(@),
                               !.ReadKeys = @ \cup {NextKey(Connection.ReadKey)},
                               !.hLast = [Outcome |-> "none"]]))
    /\ UNCHANGED <<now, OperQ, ReceiveQueue, Worker, Drain, Env>>

RecvNext ==
    \/ \E P \in RecvPacketSet : FlushRecvDrain(<<P>>)
    \/ CryptoNewReadKey

RecvSpec == RecvInit /\ [][RecvNext]_vars

\* The connection IDs: the server answers a client with Retry and Initial
\* packets, and either peer sends the NEW_CONNECTION_ID frames of the sequence
\* numbers 1 .. QUIC_ACTIVE_CONNECTION_ID_LIMIT + 2, in one packet or in two.
RetryPacket(OrigDestCID, SourceCID, Failure) ==
    [Type |-> "RETRY", OrigDestCID |-> OrigDestCID, SourceCID |-> SourceCID,
     Token |-> "Token", Failure |-> Failure]

InitialPacket(SourceCID, AllocOk) ==
    [NewPacket("INITIAL", 0, TRUE, TRUE, "T0", <<Frame("CRYPTO", FALSE, "-")>>)
        EXCEPT !.SourceCID = SourceCID, !.AllocOk = AllocOk]

NewConnectionIDFrames(First, Last) ==
    [k \in 1 .. (Last - First + 1) |-> NewConnectionIDFrame(First + k - 1, "T1")]

CidPacketSet ==
    {RetryPacket(D0, S1, "none"), RetryPacket(S1, S1, "none"),
     RetryPacket(D0, S2, "none"), RetryPacket(D0, S2, "DestCID"),
     RetryPacket(D0, S1, "InitialToken"), RetryPacket(D0, S1, "OrigCID"),
     RetryPacket(D0, S1, "InitialKeys")}
    \cup
    {InitialPacket(S1, TRUE), InitialPacket(S2, TRUE), InitialPacket(S2, FALSE)}
    \cup
    {NewPacket("1RTT", 0, TRUE, TRUE, "T0",
        NewConnectionIDFrames(1, QUIC_ACTIVE_CONNECTION_ID_LIMIT + 2)),
     NewPacket("1RTT", 0, TRUE, TRUE, "T0",
        NewConnectionIDFrames(1, QUIC_ACTIVE_CONNECTION_ID_LIMIT)),
     NewPacket("1RTT", 1, TRUE, TRUE, "T0",
        NewConnectionIDFrames(QUIC_ACTIVE_CONNECTION_ID_LIMIT + 1,
                              QUIC_ACTIVE_CONNECTION_ID_LIMIT + 2))}

CidNext ==
    \/ \E P \in CidPacketSet : FlushRecvDrain(<<P>>)
    \/ CryptoNewReadKey

CidSpec == RecvInit /\ [][CidNext]_vars

\* The source CIDs and the retirement of destination CIDs, on a connected
\* connection that holds the 1-RTT key: the peer retires source CIDs, sends
\* NEW_CONNECTION_ID frames and starts to use other CIDs, the application
\* forces a change of destination CID, and the crypto layer of a server
\* generates the initial CID of the server's choice.
SourceCid(Sequence) == Cid(<<"L", Sequence>>, MSQUIC_CONNECTION_ID_LENGTH)

RetireConnectionIDFrame(Sequence, Failure) ==
    [Type |-> "RETIRE_CONNECTION_ID", Sequence |-> Sequence, Failure |-> Failure]

SourceCidPayloads ==
    {<<Frame("PING", FALSE, "-")>>,
     <<Frame("MALFORMED", FALSE, "-")>>,
     <<Frame("CONNECTION_CLOSE", FALSE, "QUIC_ERROR_NO_ERROR")>>,
     <<NewConnectionIDFrame(1, "T1")>>,
     <<NewConnectionIDFrame(2, "T2")>>,
     <<RetireConnectionIDFrame(0, "none"), RetireConnectionIDFrame(1, "none")>>}
    \cup
    {<<RetireConnectionIDFrame(Sequence, Failure)>> :
        Sequence \in 0 .. 2, Failure \in {"none", "alloc"}}
    \cup
    {<<RetireConnectionIDFrame(0, "collisions")>>}

SourceCidPacketSet ==
    {[NewPacket("1RTT", 0, TRUE, TRUE, "T0", Frames) EXCEPT !.DestCID = DestCID] :
        Frames \in SourceCidPayloads,
        DestCID \in {NULL_CID, SourceCid(0), SourceCid(1)}}

\* QuicConnStart has given a client its source CID: one of
\* MSQUIC_CONNECTION_ID_LENGTH bytes if it shares the binding, else one of
\* no bytes. The first destination CID is the source CID of the peer's
\* packets, which may have no bytes.
SourceCidInitOf(IsServer, ShareBinding, HandshakeConfirmed, PeerCid) ==
    [QuicConnAlloc(IsServer, "connected", QUIC_PACKET_KEY_1_RTT) EXCEPT
        !.DestCIDs[1].CID = PeerCid,
        !.State.ShareBinding = ShareBinding,
        !.State.HandshakeConfirmed = HandshakeConfirmed,
        !.SourceCIDs = IF IsServer \/ ~ShareBinding THEN @
                       ELSE <<QuicCidNewSource(SourceCid(0))>>]

SourceCidInit ==
    /\ now = 0
    /\ \/ \E PeerCid \in {C0, NULL_CID} :
              Connection = SourceCidInitOf(TRUE, TRUE, TRUE, PeerCid)
       \/ \E HandshakeConfirmed \in BOOLEAN :
              Connection = SourceCidInitOf(FALSE, HandshakeConfirmed,
                                           HandshakeConfirmed, S1)
    /\ OperQ = InitialOperQ
    /\ ReceiveQueue = << >>
    /\ Worker = InitialWorker
    /\ Drain = InitialDrain
    /\ Env = InitialEnv

\* QuicConnParamSet, QUIC_PARAM_CONN_FORCE_CID_UPDATE. The result carries
\* the status.
ParamSetForceCidUpdate(C) ==
    IF ~C.State.Connected \/ ~C.State.HandshakeConfirmed
        THEN [C |-> C, Status |-> "QUIC_STATUS_INVALID_STATE"]
        ELSE [C |-> QuicConnRetireCurrentDestCid(
                        [C EXCEPT !.State.InitiatedCidUpdate = TRUE]),
              Status |-> "QUIC_STATUS_SUCCESS"]

\* A drain whose only operation is the API call that forces the update.
ForceCidUpdateDrain ==
    /\ ~Connection.State.HandleClosed
    /\ Connection' =
         DrainFinish([ParamSetForceCidUpdate(Connection).C EXCEPT
                         !.hLast = [Outcome |-> "FORCE_CID_UPDATE",
                                    Old |-> [Connection EXCEPT
                                                !.hLast = [Outcome |-> "none"]]]])
    /\ Connection' # Connection
    /\ UNCHANGED <<now, OperQ, ReceiveQueue, Worker, Drain, Env>>

\* The crypto layer of a server generates the server's initial source CID
\* when it answers the client's first flight.
CryptoGenerateInitialCid ==
    /\ QuicConnIsServer(Connection)
    /\ Connection.NextSourceCidSequenceNumber = 0
    /\ Connection' = QuicConnGenerateNewSourceCid(
                        [Connection EXCEPT !.hLast = [Outcome |-> "none"]],
                        TRUE, "none")
    /\ UNCHANGED <<now, OperQ, ReceiveQueue, Worker, Drain, Env>>

SourceCidNext ==
    \/ \E P \in SourceCidPacketSet :
            FlushRecvDrain(<<[P EXCEPT !.PacketNumber = Env.Inputs]>>)
    \/ ForceCidUpdateDrain
    \/ CryptoGenerateInitialCid

SourceCidSpec == SourceCidInit /\ [][SourceCidNext]_vars

\* The RTT estimate. A uint32_t is the pair of its 16-bit halves, the high
\* one first, and its arithmetic is that of C: sums, differences and
\* products are taken modulo 2^32.
UINT16_RANGE == 65536

U32(n) == <<n \div UINT16_RANGE, n % UINT16_RANGE>>
UINT32_MAX == <<UINT16_RANGE - 1, UINT16_RANGE - 1>>

Lt32(a, b) == a[1] < b[1] \/ (a[1] = b[1] /\ a[2] < b[2])

Add32(a, b) ==
    <<(a[1] + b[1] + ((a[2] + b[2]) \div UINT16_RANGE)) % UINT16_RANGE,
      (a[2] + b[2]) % UINT16_RANGE>>

Sub32(a, b) ==
    <<(a[1] - b[1] - (IF a[2] < b[2] THEN 1 ELSE 0)) % UINT16_RANGE,
      (a[2] - b[2]) % UINT16_RANGE>>

\* The product of a uint32_t and a small factor, and the quotient of a
\* uint32_t and a small divisor.
Mul32(k, a) ==
    <<(k * a[1] + ((k * a[2]) \div UINT16_RANGE)) % UINT16_RANGE,
      (k * a[2]) % UINT16_RANGE>>

Div32(a, d) ==
    <<a[1] \div d, ((a[1] % d) * UINT16_RANGE + a[2]) \div d>>

\* QuicConnUpdateRtt. The result carries the return value.
UpdateRttFirst(C, LatestRtt) ==
    [C |-> [C EXCEPT !.State.GotFirstRttSample = TRUE,
                     !.SmoothedRtt = LatestRtt,
                     !.RttVariance = Div32(LatestRtt, 2)],
     RttUpdated |-> TRUE]

UpdateRttVariance(C, LatestRtt) ==
    IF Lt32(LatestRtt, C.SmoothedRtt)
        THEN Div32(Sub32(Add32(Mul32(3, C.RttVariance), C.SmoothedRtt), LatestRtt), 4)
        ELSE Div32(Sub32(Add32(Mul32(3, C.RttVariance), LatestRtt), C.SmoothedRtt), 4)

UpdateRttSmoothed(C, LatestRtt) ==
    Div32(Add32(Mul32(7, C.SmoothedRtt), LatestRtt), 8)

UpdateRttNext(C, LatestRtt) ==
    [C |-> [C EXCEPT !.RttVariance = UpdateRttVariance(C, LatestRtt),
                     !.SmoothedRtt = UpdateRttSmoothed(C, LatestRtt)],
     RttUpdated |-> C.SmoothedRtt # UpdateRttSmoothed(C, LatestRtt)]

UpdateRttSample(C, LatestRtt) ==
    [C EXCEPT !.LatestRttSample = LatestRtt,
              !.MinRtt = IF Lt32(LatestRtt, @) THEN LatestRtt ELSE @,
              !.MaxRtt = IF Lt32(@, LatestRtt) THEN LatestRtt ELSE @]

QuicConnUpdateRtt(C, LatestRtt) ==
    IF ~C.State.GotFirstRttSample
        THEN UpdateRttFirst(UpdateRttSample(C, LatestRtt), LatestRtt)
        ELSE UpdateRttNext(UpdateRttSample(C, LatestRtt), LatestRtt)

\* Loss detection reports RTT samples, from a fraction of a millisecond to
\* the largest uint32_t, to a connection that has none yet.
MaxRttSamples == 3

RttSamples ==
    {U32(0), U32(300), U32(5000), U32(100000), U32(613566756),
     U32(2000000000), UINT32_MAX}

RttInit ==
    /\ now = 0
    /\ Connection = [State |-> [GotFirstRttSample |-> FALSE],
                     LatestRttSample |-> U32(0),
                     MinRtt |-> UINT32_MAX,
                     MaxRtt |-> U32(0),
                     SmoothedRtt |-> U32(MS_TO_US(100)),
                     RttVariance |-> U32(0),
                     hRtt |-> [Called |-> FALSE]]
    /\ OperQ = InitialOperQ
    /\ ReceiveQueue = << >>
    /\ Worker = InitialWorker
    /\ Drain = InitialDrain
    /\ Env = InitialEnv

LossDetectionRttSample(LatestRtt) ==
    /\ Env.Inputs < MaxRttSamples
    /\ Connection' =
         [QuicConnUpdateRtt(Connection, LatestRtt).C EXCEPT
            !.hRtt = [Called |-> TRUE,
                      LatestRtt |-> LatestRtt,
                      First |-> ~Connection.State.GotFirstRttSample,
                      SmoothedRtt |-> Connection.SmoothedRtt,
                      RttVariance |-> Connection.RttVariance,
                      RttUpdated |-> QuicConnUpdateRtt(Connection, LatestRtt).RttUpdated]]
    /\ Env' = [Env EXCEPT !.Inputs = @ + 1]
    /\ UNCHANGED <<now, OperQ, ReceiveQueue, Worker, Drain>>

RttNext == \E LatestRtt \in RttSamples : LossDetectionRttSample(LatestRtt)

RttSpec == RttInit /\ [][RttNext]_vars

\* The parameters of a connection. A call names the parameter and tells
\* whether BufferLength is the size the parameter asks for (LengthOk; for a
\* get: at least that size), whether the value is one the parameter accepts
\* (Value: a supported version, a valid address, a terminated phrase of fewer
\* than 513 bytes), the number in the buffer, and whether the allocation or
\* the binding the call needs fails. The stream counts, the disconnect
\* timeout, the send settings, the security configuration and the forced key
\* update are left to their collaborators.
ParamCall(Param, LengthOk, Value, Number, Failure) ==
    [Param |-> Param, LengthOk |-> LengthOk, Value |-> Value,
     Number |-> Number, Failure |-> Failure]

ParamStatus(C, Status) == [C |-> C, Status |-> Status]

ParamSetQuicVersion(C, Call) ==
    IF ~Call.LengthOk THEN ParamStatus(C, "QUIC_STATUS_INVALID_PARAMETER")
    ELSE IF Call.Value # "valid" THEN ParamStatus(C, "QUIC_STATUS_INVALID_PARAMETER")
    ELSE IF C.State.Started THEN ParamStatus(C, "QUIC_STATUS_INVALID_STATE")
    ELSE ParamStatus([C EXCEPT !.QuicVersion = Call.Value], "QUIC_STATUS_SUCCESS")

\* On a connected connection the new binding is looked up after the address
\* has been stored.
ParamSetLocalAddressBind(C, Call) ==
    IF ~C.State.Connected THEN ParamStatus(C, "QUIC_STATUS_SUCCESS")
    ELSE IF Call.Failure
        THEN ParamStatus(C, "QUIC_STATUS_OUT_OF_MEMORY")    \* the old binding stays
        ELSE ParamStatus(QuicSendSetSendFlag([C EXCEPT !.Binding = Call.Value], "PING"),
                         "QUIC_STATUS_SUCCESS")

ParamSetLocalAddress(C, Call) ==
    IF ~Call.LengthOk \/ QuicConnIsServer(C) \/ Call.Value # "valid"
        THEN ParamStatus(C, "QUIC_STATUS_INVALID_PARAMETER")
        ELSE ParamSetLocalAddressBind(
                [C EXCEPT !.State.LocalAddressSet = TRUE,
                          !.LocalAddress = Call.Value], Call)

ParamSetRemoteAddress(C, Call) ==
    IF ~Call.LengthOk \/ QuicConnIsServer(C)
        THEN ParamStatus(C, "QUIC_STATUS_INVALID_PARAMETER")
    ELSE IF C.State.Started THEN ParamStatus(C, "QUIC_STATUS_INVALID_STATE")
    ELSE ParamStatus([C EXCEPT !.State.RemoteAddressSet = TRUE,
                               !.RemoteAddress = Call.Value],
                     "QUIC_STATUS_SUCCESS")

ParamSetIdleTimeout(C, Call) ==
    IF ~Call.LengthOk THEN ParamStatus(C, "QUIC_STATUS_INVALID_PARAMETER")
    ELSE IF C.State.Started THEN ParamStatus(C, "QUIC_STATUS_INVALID_STATE")
    ELSE ParamStatus([C EXCEPT !.IdleTimeoutMs = Call.Number], "QUIC_STATUS_SUCCESS")

\* The old phrase is freed before the new one is allocated.
ParamSetCloseReasonPhrase(C, Call) ==
    IF Call.Value # "valid" THEN ParamStatus(C, "QUIC_STATUS_INVALID_PARAMETER")
    ELSE IF Call.Failure
        THEN ParamStatus([C EXCEPT !.CloseReasonPhrase = "NULL"],
                         "QUIC_STATUS_OUT_OF_MEMORY")
        ELSE ParamStatus([C EXCEPT !.CloseReasonPhrase = Call.Value],
                         "QUIC_STATUS_SUCCESS")

ParamSetCertValidationFlags(C, Call) ==
    IF ~Call.LengthOk THEN ParamStatus(C, "QUIC_STATUS_INVALID_PARAMETER")
    ELSE IF QuicConnIsServer(C) \/ C.State.Started
        THEN ParamStatus(C, "QUIC_STATUS_INVALID_STATE")
        ELSE ParamStatus([C EXCEPT !.ServerCertValidationFlags = Call.Number],
                         "QUIC_STATUS_SUCCESS")

ParamSetKeepAliveStart(C) ==
    IF C.State.Started /\ C.KeepAliveIntervalMs # 0
        THEN QuicConnProcessKeepAliveOperation(C)
        ELSE C

ParamSetKeepAliveCancel(C) ==
    IF C.State.Started /\ C.KeepAliveIntervalMs # 0
        THEN QuicConnTimerCancel(C, QUIC_CONN_TIMER_KEEP_ALIVE)
        ELSE C

ParamSetKeepAlive(C, Call) ==
    IF ~Call.LengthOk THEN ParamStatus(C, "QUIC_STATUS_INVALID_PARAMETER")
    ELSE ParamStatus(
            ParamSetKeepAliveStart(
                [ParamSetKeepAliveCancel(C) EXCEPT
                    !.KeepAliveIntervalMs = Call.Number]),
            "QUIC_STATUS_SUCCESS")

ParamSetShareUdpBinding(C, Call) ==
    IF ~Call.LengthOk THEN ParamStatus(C, "QUIC_STATUS_INVALID_PARAMETER")
    ELSE IF C.State.Started \/ QuicConnIsServer(C)
        THEN ParamStatus(C, "QUIC_STATUS_INVALID_STATE")
        ELSE ParamStatus([C EXCEPT !.State.ShareBinding = (Call.Number # 0)],
                         "QUIC_STATUS_SUCCESS")

\* QuicConnParamSet. The result carries the status.
QuicConnParamSet(C, Call) ==
    CASE Call.Param = "QUIC_VERSION" -> ParamSetQuicVersion(C, Call)
      [] Call.Param = "LOCAL_ADDRESS" -> ParamSetLocalAddress(C, Call)
      [] Call.Param = "REMOTE_ADDRESS" -> ParamSetRemoteAddress(C, Call)
      [] Call.Param = "IDLE_TIMEOUT" -> ParamSetIdleTimeout(C, Call)
      [] Call.Param = "CLOSE_REASON_PHRASE" -> ParamSetCloseReasonPhrase(C, Call)
      [] Call.Param = "CERT_VALIDATION_FLAGS" -> ParamSetCertValidationFlags(C, Call)
      [] Call.Param = "KEEP_ALIVE" -> ParamSetKeepAlive(C, Call)
      [] Call.Param = "SHARE_UDP_BINDING" -> ParamSetShareUdpBinding(C, Call)
      [] Call.Param = "FORCE_CID_UPDATE" -> ParamSetForceCidUpdate(C)
      [] OTHER -> ParamStatus(C, "QUIC_STATUS_INVALID_PARAMETER")

\* QuicConnParamGet: no case writes to the connection. The buffer is too
\* small when LengthOk is FALSE and NULL when Value is not "valid".
ParamGetBuffer(C, Call) ==
    IF ~Call.LengthOk THEN ParamStatus(C, "QUIC_STATUS_BUFFER_TOO_SMALL")
    ELSE IF Call.Value # "valid" THEN ParamStatus(C, "QUIC_STATUS_INVALID_PARAMETER")
    ELSE ParamStatus(C, "QUIC_STATUS_SUCCESS")

ParamGetLocalAddress(C, Call) ==
    IF Call.LengthOk /\ Call.Value = "valid" /\ ~C.State.LocalAddressSet
        THEN ParamStatus(C, "QUIC_STATUS_INVALID_STATE")
        ELSE ParamGetBuffer(C, Call)

ParamGetRemoteAddress(C, Call) ==
    IF Call.LengthOk /\ Call.Value = "valid" /\ ~C.State.RemoteAddressSet
        THEN ParamStatus(C, "QUIC_STATUS_INVALID_STATE")
        ELSE ParamGetBuffer(C, Call)

ParamGetCloseReasonPhrase(C, Call) ==
    IF C.CloseReasonPhrase = "NULL"
        THEN ParamStatus(C, "QUIC_STATUS_NOT_FOUND")
        ELSE ParamGetBuffer(C, Call)

QuicConnParamGet(C, Call) ==
    CASE Call.Param = "LOCAL_ADDRESS" -> ParamGetLocalAddress(C, Call)
      [] Call.Param = "REMOTE_ADDRESS" -> ParamGetRemoteAddress(C, Call)
      [] Call.Param = "CLOSE_REASON_PHRASE" -> ParamGetCloseReasonPhrase(C, Call)
      [] Call.Param \in {"QUIC_VERSION", "IDLE_TIMEOUT", "CERT_VALIDATION_FLAGS",
                         "KEEP_ALIVE", "SHARE_UDP_BINDING"} -> ParamGetBuffer(C, Call)
      [] OTHER -> ParamStatus(C, "QUIC_STATUS_INVALID_PARAMETER")

\* The application sets and gets parameters, before the start of a client
\* and on connected connections.
MaxParamCalls == 2

ParamNames ==
    {"QUIC_VERSION", "LOCAL_ADDRESS", "REMOTE_ADDRESS", "IDLE_TIMEOUT",
     "CLOSE_REASON_PHRASE", "CERT_VALIDATION_FLAGS", "KEEP_ALIVE",
     "SHARE_UDP_BINDING", "FORCE_CID_UPDATE", "UNKNOWN"}

ParamCalls ==
    {ParamCall(Param, LengthOk, Value, Number, Failure) :
        Param \in ParamNames, LengthOk \in BOOLEAN,
        Value \in {"valid", "invalid"}, Number \in {0, 30},
        Failure \in BOOLEAN}

ParamInitOf(IsServer, Phase) ==
    [QuicConnAlloc(IsServer, Phase, QUIC_PACKET_KEY_1_RTT) EXCEPT
        !.State = @ @@ [LocalAddressSet |-> (Phase # "new"),
                        RemoteAddressSet |-> (Phase # "new")],
        !.State.HandshakeConfirmed = (Phase = "connected")] @@
    [QuicVersion |-> "default",
     LocalAddress |-> IF Phase = "new" THEN "unset" ELSE "bound",
     RemoteAddress |-> IF Phase = "new" THEN "unset" ELSE "peer",
     Binding |-> IF Phase = "new" THEN "NULL" ELSE "bound",
     CloseReasonPhrase |-> "NULL",
     ServerCertValidationFlags |-> 0,
     hParam |-> [Called |-> FALSE]]

ParamInit ==
    /\ now = 0
    /\ \/ Connection = ParamInitOf(TRUE, "connected")
       \/ \E Phase \in {"new", "connected"} : Connection = ParamInitOf(FALSE, Phase)
    /\ OperQ = InitialOperQ
    /\ ReceiveQueue = << >>
    /\ Worker = InitialWorker
    /\ Drain = InitialDrain
    /\ Env = InitialEnv

ParamDone(R, Call, Set) ==
    DrainFinish([R.C EXCEPT
        !.hParam = [Called |-> TRUE, Set |-> Set, Call |-> Call,
                    Status |-> R.Status,
                    Old |-> [Connection EXCEPT !.hParam = [Called |-> FALSE]]]])

\* A drain whose only operation is the API call that sets the parameter, and
\* one whose only operation is the call that gets it.
ParamSetDrain(Call) ==
    /\ Env.Inputs < MaxParamCalls
    /\ Connection' = ParamDone(QuicConnParamSet(Connection, Call), Call, TRUE)
    /\ Env' = [Env EXCEPT !.Inputs = @ + 1]
    /\ UNCHANGED <<now, OperQ, ReceiveQueue, Worker, Drain>>

ParamGetDrain(Call) ==
    /\ Env.Inputs < MaxParamCalls
    /\ Connection' = ParamDone(QuicConnParamGet(Connection, Call), Call, FALSE)
    /\ Env' = [Env EXCEPT !.Inputs = @ + 1]
    /\ UNCHANGED <<now, OperQ, ReceiveQueue, Worker, Drain>>

ParamNext ==
    \/ \E Call \in ParamCalls : ParamSetDrain(Call)
    \/ \E Call \in ParamCalls : ParamGetDrain(Call)

ParamSpec == ParamInit /\ [][ParamNext]_vars

\* The timer array alone: any sequence of QuicConnTimerSet, QuicConnTimerCancel
\* and QuicConnTimerExpired calls, with the clock advancing between them,
\* from the array QuicConnAlloc builds.
TimerDelays == {0, 2, 5}        \* milliseconds
TimerTicks  == {2000, 3000}     \* microseconds

\* The history of a call on the array Old that returned R.
NoWheelCall ==
    [Call |-> "none", HeadChanged |-> FALSE, WheelUpdated |-> FALSE]
NoExpiry == [Called |-> FALSE]

\* The timers whose expiry is a TIMER_EXPIRED operation.
TimerOperationTypes ==
    TimerTypes \ {QUIC_CONN_TIMER_ACK_DELAY, QUIC_CONN_TIMER_PACING}

WheelCall(Call, Old, R) ==
    [Call |-> Call, HeadChanged |-> (R.Timers[0] # Old[0]),
     WheelUpdated |-> R.WheelUpdated]

TimerInit ==
    /\ now = 0
    /\ Connection = InitialConnection(FALSE, "started", 5000, 0, 0)
    /\ OperQ = InitialOperQ
    /\ ReceiveQueue = << >>
    /\ Worker = InitialWorker
    /\ Drain = InitialDrain
    /\ Env = InitialEnv @@ [hWheel |-> NoWheelCall, hExpired |-> NoExpiry]

\* hWheel: whether the call changed the entry at index 0 of the array and
\* whether it called QuicTimerWheelUpdateConnection.
TimerCallWheel(Wheel) ==
    /\ Env.Inputs < MaxTimerCalls
    /\ Env' = [Env EXCEPT !.Inputs = @ + 1, !.hWheel = Wheel,
                          !.hExpired = NoExpiry]

TimerCall == TimerCallWheel(NoWheelCall)

TimerSetCall(Type, Delay) ==
    /\ TimerCallWheel(
            WheelCall("QuicConnTimerSet", Connection.Timers,
                      TimerSetArray(Connection.Timers, Type, Delay, now)))
    /\ Connection' = QuicConnTimerSet(Connection, Type, Delay)
    /\ UNCHANGED <<now, OperQ, ReceiveQueue, Worker, Drain>>

TimerCancelCall(Type) ==
    /\ TimerCallWheel(
            WheelCall("QuicConnTimerCancel", Connection.Timers,
                      TimerCancelArray(Connection.Timers, Type)))
    /\ Connection' = QuicConnTimerCancel(Connection, Type)
    /\ UNCHANGED <<now, OperQ, ReceiveQueue, Worker, Drain>>

\* The timer wheel calls QuicConnTimerExpired when the first timer is due.
\* Fail: the expired timers whose operation is not allocated.
\* hExpired: the array and the queue the call found, and what it did.
TimerExpiredCall(Fail) ==
    /\ Env.Inputs < MaxTimerCalls
    /\ Connection.Timers[0].ExpirationTime <= now
    /\ Fail \subseteq SeqToSet(TimerExpiredArray(Connection.Timers, now).Temp)
    /\ Env.AllocFailures + Cardinality(Fail) <= MaxAllocFailures
    /\ TimerWheelDone(QuicConnTimerExpired(Connection, Shared, now, Fail))
    /\ Env' = [Env EXCEPT
                !.Inputs = @ + 1,
                !.AllocFailures = @ + Cardinality(Fail),
                !.hWheel = NoWheelCall,
                !.hExpired =
                    [Called |-> TRUE, Old |-> Connection.Timers,
                     TimeNow |-> now, Queued |-> Len(OperQ.List), Fail |-> Fail,
                     FlushSendImmediate |->
                        QuicConnTimerExpired(Connection, Shared, now,
                                             Fail).FlushSendImmediate]]
    /\ UNCHANGED <<now, ReceiveQueue, Drain>>

TimerTick(d) ==
    /\ TimerCall
    /\ now' = now + d
    /\ UNCHANGED <<Connection, OperQ, ReceiveQueue, Worker, Drain>>

TimerNext ==
    \/ \E Type \in TimerTypes, Delay \in TimerDelays : TimerSetCall(Type, Delay)
    \/ \E Type \in TimerTypes : TimerCancelCall(Type)
    \/ \E Fail \in SUBSET TimerOperationTypes : TimerExpiredCall(Fail)
    \/ \E d \in TimerTicks : TimerTick(d)

TimerSpec == TimerInit /\ [][TimerNext]_vars

-----------------------------------------------------------------------------
(* Properties *)

Armed(Timers, i) == Timers[i].ExpirationTime # UINT64_MAX

\* The timer of this type is armed.
TimerArmed(C, Type) ==
    C.Timers[TimerCurIndex(C.Timers, Type)].ExpirationTime # UINT64_MAX

\* C4: after any sequence of QuicConnTimerSet, QuicConnTimerCancel and
\* QuicConnTimerExpired calls the timer array is sorted by ExpirationTime
\* ascending, every unused (UINT64_MAX) slot lies after every armed slot, and
\* each of the six timer types occupies exactly one slot.
C4_TimerArraySorted ==
    LET T == Connection.Timers
    IN  /\ \A i \in TimerSlots : \A j \in TimerSlots :
                i < j => T[i].ExpirationTime <= T[j].ExpirationTime
        /\ \A i \in TimerSlots : \A j \in TimerSlots :
                (~Armed(T, i) /\ Armed(T, j)) => j < i
        /\ \A Type \in TimerTypes :
                Cardinality({i \in TimerSlots : T[i].Type = Type}) = 1

\* Two timers are armed with different expirations, one has expired and been
\* queued, and the types no longer sit in the slots QuicConnAlloc gave them.
C4_Witness ==
    /\ Armed(Connection.Timers, 1)
    /\ Connection.Timers[0].ExpirationTime < Connection.Timers[1].ExpirationTime
    /\ OperQ.List # << >>
    /\ \E i \in TimerSlots : Connection.Timers[i].Type # i

ShutdownCompleteEvents ==
    {k \in 1 .. Len(Connection.hEvents) :
        Connection.hEvents[k].Type = "SHUTDOWN_COMPLETE"}

\* C2: the SHUTDOWN_COMPLETE indication is delivered at most once, and only
\* after ClosedLocally or ClosedRemotely has become true.
C2_ShutdownCompleteOnce ==
    /\ Cardinality(ShutdownCompleteEvents) <= 1
    /\ \A k \in ShutdownCompleteEvents : Connection.hEvents[k].Closed
    /\ Connection.hComplete.Happened => Connection.hComplete.Closed

\* SHUTDOWN_COMPLETE has been delivered and a later close has asked for the
\* completion again.
C2_Witness ==
    /\ ShutdownCompleteEvents # {}
    /\ Connection.State.SendShutdownCompleteNotif
    /\ ~Connection.State.HandleClosed

\* C3: once HandleClosed is true no event is delivered to the application:
\* QuicConnIndicateEvent returns without invoking the client callback.
C3_NoEventAfterHandleClosed ==
    \A k \in 1 .. Len(Connection.hEvents) :
        ~Connection.hEvents[k].AfterHandleClosed

\* The application closed the handle from inside a callback and a later
\* indication of the same drain was discarded.
C3_Witness ==
    /\ Connection.State.HandleClosed
    /\ Connection.hEvents # << >>
    /\ Connection.hDiscarded # {}

\* C6, as the specification states it: when shutdown completion is processed,
\* ShutdownCompleteTimedOut is FALSE if and only if QuicConnTryClose closed the
\* second side before the SHUTDOWN timer operation ran, or a silent close was
\* forced.
C6_Original ==
    Connection.hComplete.Happened =>
        (~Connection.hComplete.TimedOut <=>
            (Connection.hComplete.BothBeforeTimer \/ Connection.hComplete.Silent))

\* C6, amended: when shutdown completion is processed, ShutdownCompleteTimedOut
\* is FALSE if and only if QuicConnTryClose closed the second side, before or
\* after the SHUTDOWN timer operation ran, or a silent close was forced; if
\* the SHUTDOWN timer operation is what completed the shutdown and no such
\* close followed it, it is TRUE.
C6_TimedOutIffNotBothNorSilent ==
    Connection.hComplete.Happened =>
        /\ ~Connection.hComplete.TimedOut <=>
                (Connection.hComplete.Both \/ Connection.hComplete.Silent)
        /\ (Connection.hComplete.TimerOpRan /\ ~Connection.hComplete.Both
                /\ ~Connection.hComplete.Silent) => Connection.hComplete.TimedOut

\* Shutdown completion was processed after the SHUTDOWN timer operation ran
\* and after a QuicConnTryClose that followed it closed the second side.
C6_Witness ==
    /\ Connection.hComplete.Happened
    /\ Connection.hComplete.TimerOpRan
    /\ Connection.hComplete.Both
    /\ ~Connection.hComplete.BothBeforeTimer
    /\ ~Connection.hComplete.Silent

\* C7, as the specification states it: after the IDLE timer operation is
\* processed on an open connection that has not been closed, the connection
\* is closed locally and silently with CloseStatus STATUS_CONNECTION_IDLE and
\* the SHUTDOWN_COMPLETE event carries PeerAcknowledgedShutdown = FALSE.
C7_Original ==
    Connection.hIdleOnOpen =>
        /\ Connection.State.ClosedLocally
        /\ Connection.hSilent
        /\ Connection.CloseStatus = "QUIC_STATUS_CONNECTION_IDLE"
        /\ \A k \in ShutdownCompleteEvents :
                Connection.hEvents[k].PeerAcknowledgedShutdown = FALSE

\* C7, amended: after the IDLE timer operation is processed on an open
\* connection that has not been closed, the connection is closed locally and
\* silently with CloseStatus STATUS_CONNECTION_IDLE and the SHUTDOWN_COMPLETE
\* event carries PeerAcknowledgedShutdown = TRUE (a silent close clears
\* ShutdownCompleteTimedOut).
C7_IdleClosesSilently ==
    Connection.hIdleOnOpen =>
        /\ Connection.State.ClosedLocally
        /\ Connection.hSilent
        /\ Connection.CloseStatus = "QUIC_STATUS_CONNECTION_IDLE"
        /\ \A k \in ShutdownCompleteEvents :
                Connection.hEvents[k].PeerAcknowledgedShutdown = TRUE

\* The IDLE timer operation ran on an open connection and SHUTDOWN_COMPLETE
\* has been delivered.
C7_Witness ==
    /\ Connection.hIdleOnOpen
    /\ ShutdownCompleteEvents # {}

\* The peer's close was the first and the connection went through the
\* draining period (it is not a client still in handshake).
PeerFirstDraining ==
    Connection.hPeerFirst.Happened /\ ~Connection.hPeerFirst.Silent
PeerFirstSilent ==
    Connection.hPeerFirst.Happened /\ Connection.hPeerFirst.Silent

\* The event the application received right after the peer's first close.
PeerFirstEvent == Connection.hEvents[Connection.hPeerFirst.Events + 1]

\* What C8 says of a client still in handshake: the peer's first close is
\* silent exactly then, the SHUTDOWN timer is not armed and the shutdown
\* completes at the end of the drain that processed the close.
PeerFirstAtOnce ==
    /\ Connection.hPeerFirst.Happened =>
            (Connection.hPeerFirst.Silent <=>
                (~Connection.IsServer /\ ~Connection.State.Connected))
    /\ PeerFirstSilent =>
        /\ Connection.hPeerFirst.ShutdownTimer = UINT64_MAX
        /\ Drain.Inside = {} =>
                (Connection.hComplete.Happened \/ Connection.State.HandleClosed)

\* C8, as the specification states it: when the peer's CONNECTION_CLOSE with
\* error code E is the first close and the connection is not a client still
\* in handshake, the SHUTDOWN timer is armed for max(15 ms, 2 * SmoothedRtt),
\* SHUTDOWN_INITIATED_BY_PEER with ErrorCode = E is indicated first and
\* SHUTDOWN_COMPLETE afterwards, only once the SHUTDOWN timer operation is
\* processed; a client still in handshake completes at once without arming
\* the timer.
C8_Original ==
    /\ PeerFirstAtOnce
    /\ PeerFirstDraining =>
        /\ Connection.hPeerFirst.ShutdownTimer =
                Connection.hPeerFirst.Time +
                    max(15000, 2 * Connection.hPeerFirst.SmoothedRtt)
        /\ Connection.hPeerFirst.Notified =>
            /\ PeerFirstEvent.Type = "SHUTDOWN_INITIATED_BY_PEER"
            /\ PeerFirstEvent.ErrorCode = Connection.hPeerFirst.ErrorCode
        /\ \A k \in ShutdownCompleteEvents :
            /\ k > Connection.hPeerFirst.Events
            /\ Connection.hComplete.TimerOpRan

\* C8, amended: when the peer's CONNECTION_CLOSE with error code E is the
\* first close and the connection is not a client still in handshake, the
\* SHUTDOWN timer is armed for max(15, floor(2 * SmoothedRtt / 1 ms))
\* milliseconds; the first indication is SHUTDOWN_INITIATED_BY_PEER with
\* ErrorCode = E when the frame is an application close and
\* SHUTDOWN_INITIATED_BY_TRANSPORT with Status = QuicErrorCodeToStatus(E)
\* when it is a transport close; SHUTDOWN_COMPLETE is indicated afterwards,
\* only once the SHUTDOWN timer operation is processed or the connection has
\* been closed locally as well; a client still in handshake completes at once
\* without arming the timer.
C8_PeerCloseDrains ==
    /\ PeerFirstAtOnce
    /\ PeerFirstDraining =>
        /\ Connection.hPeerFirst.ShutdownTimer =
                Connection.hPeerFirst.Time +
                    1000 * max(15, (2 * Connection.hPeerFirst.SmoothedRtt) \div 1000)
        /\ (Connection.hPeerFirst.Notified /\ Connection.hPeerFirst.App) =>
            /\ PeerFirstEvent.Type = "SHUTDOWN_INITIATED_BY_PEER"
            /\ PeerFirstEvent.ErrorCode = Connection.hPeerFirst.ErrorCode
        /\ (Connection.hPeerFirst.Notified /\ ~Connection.hPeerFirst.App) =>
            /\ PeerFirstEvent.Type = "SHUTDOWN_INITIATED_BY_TRANSPORT"
            /\ PeerFirstEvent.Status =
                    QuicErrorCodeToStatus(Connection.hPeerFirst.ErrorCode)
        /\ \A k \in ShutdownCompleteEvents :
            /\ k > Connection.hPeerFirst.Events
            /\ Connection.hComplete.TimerOpRan \/ Connection.State.ClosedLocally

\* The peer closed first, the application was told, the connection drained
\* and SHUTDOWN_COMPLETE was delivered after the SHUTDOWN timer operation.
C8_Witness ==
    /\ PeerFirstDraining
    /\ Connection.hPeerFirst.Notified
    /\ ShutdownCompleteEvents # {}
    /\ Connection.hComplete.TimerOpRan
    /\ ~Connection.State.ClosedLocally

\* A client still in handshake completed at once on the peer's close.
C8_WitnessAtOnce ==
    /\ PeerFirstSilent
    /\ ShutdownCompleteEvents # {}

\* The list the inserts Ins leave of the list L when operations queued with
\* QuicConnQueueHighestPriorityOper go to the head and all others to the tail.
RECURSIVE ApplyInserts(_, _)
ApplyInserts(L, Ins) ==
    IF Ins = << >> THEN L
    ELSE ApplyInserts(
            IF Head(Ins).Via = "QuicConnQueueHighestPriorityOper"
                THEN <<Head(Ins).Oper>> \o L
                ELSE Append(L, Head(Ins).Oper),
            Tail(Ins))

\* One step in the life of the queue: a dispatch takes the head of the
\* queue; an insert puts the operation behind everything queued, or, for
\* QuicConnQueueHighestPriorityOper, ahead of everything queued; nothing else
\* reorders the queue (it is emptied when the connection is uninitialized).
C9_Step ==
    IF Drain'.OperationCount = Drain.OperationCount + 1 THEN
        /\ OperQ.List # << >>
        /\ Drain'.hDispatch = <<Head(OperQ.List)>>
        /\ OperQ'.List = ApplyInserts(Tail(OperQ.List), OperQ'.hInserts)
    ELSE IF OperQ' # OperQ THEN
        \/ OperQ'.List = ApplyInserts(OperQ.List, OperQ'.hInserts)
        \/ (OperQ'.List = << >> /\ Connection'.State.Uninitialized)
    ELSE TRUE

\* C9: QuicConnDrainOperations dispatches operations in the order in which
\* they were enqueued, across drain invocations, except that an operation
\* enqueued with QuicConnQueueHighestPriorityOper is dispatched before every
\* operation that was in the queue already.
C9_FifoExceptHighestPriority == [][C9_Step]_vars

\* The drain is dispatching an operation that was inserted at the front of
\* a queue holding other operations, and those are still queued.
C9_Witness ==
    /\ Drain.hDispatch # << >>
    /\ Drain.hDispatch[1].hFront
    /\ Drain.hDispatch[1].hQueued > 0
    /\ Len(OperQ.List) >= Drain.hDispatch[1].hQueued
    /\ \A k \in 1 .. Len(OperQ.List) : ~OperQ.List[k].hFront

\* C10, as the specification states it: every insert that finds the queue
\* empty signals the worker, every insert that finds it non-empty causes no
\* external action, and this holds at every place that enqueues.
C10_Original ==
    \A k \in 1 .. Len(OperQ.hInserts) :
        OperQ.hInserts[k].WasEmpty <=> OperQ.hInserts[k].Signaled

\* C10, amended: every insert made with QuicConnQueueOper or
\* QuicConnQueueHighestPriorityOper signals the worker if and only if it
\* finds the queue empty; the FLUSH_SEND operation QuicConnDrainOperations
\* puts back on the queue never signals the worker, whether or not the queue
\* was empty (the draining thread is processing the connection already).
C10_SignalOnFirstInsert ==
    \A k \in 1 .. Len(OperQ.hInserts) :
        IF OperQ.hInserts[k].Via = "QuicOperationEnqueue"
            THEN ~OperQ.hInserts[k].Signaled
            ELSE OperQ.hInserts[k].WasEmpty <=> OperQ.hInserts[k].Signaled

\* QuicConnDrainOperations has put the FLUSH_SEND operation back on an empty
\* queue.
C10_Witness ==
    \E k \in 1 .. Len(OperQ.hInserts) :
        /\ OperQ.hInserts[k].Via = "QuicOperationEnqueue"
        /\ OperQ.hInserts[k].WasEmpty
        /\ OperQ.List # << >>

\* Nothing is left that would make the worker run the connection: no thread
\* is draining, the worker has not been signaled, no operation is queued and
\* no timer is armed. Only the application or the peer can change the state.
NothingPending ==
    /\ Drain.Inside = {}
    /\ ~Worker.HasQueuedWork
    /\ OperQ.List = << >>
    /\ \A i \in TimerSlots : Connection.Timers[i].ExpirationTime = UINT64_MAX

\* C5: once the connection has been closed on either side while its handle
\* is still open, shutdown completion (QuicConnOnShutdownComplete) eventually
\* runs, also when the allocation of the TIMER_EXPIRED operation fails: as
\* long as it has not run, a drain, a queued operation or an armed timer is
\* pending that leads to it.
C5_ShutdownCompletes ==
    (/\ Connection.State.ClosedLocally \/ Connection.State.ClosedRemotely
     /\ ~Connection.State.HandleClosed
     /\ ~Connection.State.HandleShutdown)
    => ~NothingPending

\* C11: one invocation of QuicConnDrainOperations dispatches at most
\* MaxOperationsPerDrain operations, whatever the length of the queue and
\* however many times a FLUSH_SEND operation is put back during it.
C11_DrainLimit == Drain.OperationCount <= MaxOperationsPerDrain

\* The drain has dispatched MaxOperationsPerDrain operations, the last one a
\* FLUSH_SEND operation it put back, which remains queued.
C11_Witness ==
    /\ Drain.Inside # {}
    /\ Drain.OperationCount = MaxOperationsPerDrain
    /\ OperQ.List # << >>
    /\ \E k \in 1 .. Len(OperQ.hInserts) :
            OperQ.hInserts[k].Via = "QuicOperationEnqueue"

\* QuicConnDrainOperations has returned at least once.
DrainHasReturned == Worker.hLastThread # "none"

C13_IntakeBounded == ReceiveQueueCount <= QUIC_MAX_RECEIVE_QUEUE_COUNT

\* The latest packet went through QuicConnRecvDatagrams.
LastPacket == Connection.hLast.Outcome \notin {"none", "retry"}
LastKeyType == QuicPacketTypeToKeyType(Connection.hLast.Packet.Type)
LastLevel == QuicKeyTypeToEncryptLevel(LastKeyType)

\* ... and the key of its type was there.
LastHadKey ==
    /\ LastPacket
    /\ LastKeyType <= Connection.hLast.Old.ReadKey
    /\ LastKeyType \in Connection.hLast.Old.ReadKeys

\* ... and it decrypted, with a packet number its level had accepted before.
LastWasDuplicate ==
    /\ LastHadKey
    /\ Connection.hLast.Packet.Decrypts
    /\ Connection.hLast.Packet.PacketNumber \in
            Connection.hLast.Old.Packets[LastLevel].AckTracker

C15_NextRecvPacketNumber ==
    \A L \in EncryptLevels :
        \A p \in Connection.Packets[L].AckTracker :
            Connection.Packets[L].NextRecvPacketNumber > p

\* C16: the count of deferred datagrams of every level is at most
\* QUIC_MAX_PENDING_DATAGRAMS and is the length of the level's deferred
\* list; a datagram that arrives when the limit is reached is dropped.
C16_DeferredBounded ==
    /\ \A L \in EncryptLevels :
        /\ Connection.Packets[L].DeferredDatagramsCount <= QUIC_MAX_PENDING_DATAGRAMS
        /\ Connection.Packets[L].DeferredDatagramsCount =
                Len(Connection.Packets[L].DeferredDatagrams)
    /\ (/\ LastPacket
        /\ LastKeyType > Connection.hLast.Old.ReadKey
        /\ Connection.hLast.Old.Packets[LastLevel].DeferredDatagramsCount =
                QUIC_MAX_PENDING_DATAGRAMS)
        => Connection.Packets = Connection.hLast.Old.Packets

C16_Witness ==
    /\ LastPacket
    /\ LastKeyType > Connection.hLast.Old.ReadKey
    /\ Connection.hLast.Old.Packets[LastLevel].DeferredDatagramsCount =
            QUIC_MAX_PENDING_DATAGRAMS
    /\ DeferredPacket(Connection.hLast.Packet) \notin
            {Connection.Packets[LastLevel].DeferredDatagrams[k] :
                k \in 1 .. Len(Connection.Packets[LastLevel].DeferredDatagrams)}

\* The latest packet failed decryption with its key there, and it was a
\* stateless reset of a client: a short-header packet of the minimum length
\* whose last bytes are a stored reset token.
LastFailedDecryption == LastHadKey /\ ~Connection.hLast.Packet.Decrypts

LastWasStatelessReset ==
    /\ LastFailedDecryption
    /\ ~QuicConnIsServer(Connection)
    /\ Connection.hLast.Packet.Type = "1RTT"
    /\ Connection.hLast.Packet.LongEnough
    /\ Connection.hLast.Packet.ResetToken \in ResetTokens(Connection.hLast.Old)

WasClosed(C) == C.State.ClosedLocally \/ C.State.ClosedRemotely

\* C17 as stated: every stateless reset of a client closes the connection
\* silently with QUIC_STATUS_ABORTED, no CONNECTION_CLOSE send flag and no
\* SHUTDOWN timer.
C17_Original ==
    LastWasStatelessReset =>
        /\ Connection.State.ClosedLocally
        /\ Connection.CloseStatus = "QUIC_STATUS_ABORTED"
        /\ Connection.SendFlags = {}
        /\ ~TimerArmed(Connection, QUIC_CONN_TIMER_SHUTDOWN)

\* C17: a stateless reset of a client closes the connection silently: the
\* shutdown is complete at once, no CONNECTION_CLOSE send flag is set and no
\* SHUTDOWN timer is armed by it (one that an earlier close armed stays
\* armed); CloseStatus is QUIC_STATUS_ABORTED when the connection was open. A packet that fails decryption otherwise
\* only counts as a decryption failure, and a server never closes this way.
C17_StatelessReset ==
    /\ LastWasStatelessReset =>
        /\ Connection.State.ClosedLocally
        /\ Connection.State.HandleShutdown
        /\ Connection.SendFlags = Connection.hLast.Old.SendFlags
        /\ TimerArmed(Connection, QUIC_CONN_TIMER_SHUTDOWN) =
                TimerArmed(Connection.hLast.Old, QUIC_CONN_TIMER_SHUTDOWN)
        /\ ~WasClosed(Connection.hLast.Old) =>
                Connection.CloseStatus = "QUIC_STATUS_ABORTED"
    /\ (LastFailedDecryption /\ ~LastWasStatelessReset) =>
        /\ Connection.Stats.DecryptionFailures =
                Connection.hLast.Old.Stats.DecryptionFailures + 1
        /\ Connection.State.ClosedLocally = Connection.hLast.Old.State.ClosedLocally
        /\ Connection.State.ClosedRemotely = Connection.hLast.Old.State.ClosedRemotely
        /\ Connection.CloseStatus = Connection.hLast.Old.CloseStatus
        /\ Connection.SendFlags = Connection.hLast.Old.SendFlags
        /\ Connection.Packets = Connection.hLast.Old.Packets

C17_Witness ==
    /\ LastWasStatelessReset
    /\ ~WasClosed(Connection.hLast.Old)
    /\ Connection.CloseStatus = "QUIC_STATUS_ABORTED"

\* The latest packet was a Retry; it was accepted if it set
\* ReceivedRetryPacket.
LastRetry == Connection.hLast.Outcome = "retry"

RetryAccepted ==
    /\ LastRetry
    /\ Connection.State.ReceivedRetryPacket
    /\ ~Connection.hLast.Old.State.ReceivedRetryPacket

\* The fields the Retry path writes, and the close state.
RetryState(C) ==
    <<C.State, C.DestCIDs, C.DestCIDCount, C.OrigCID, C.InitialToken,
      C.ReadKeys, C.Packets, C.CloseStatus, C.hRestart>>

\* C18: a client accepts a Retry only if it has had no server response and the
\* original destination CID of the packet is its current destination CID; an
\* accepted Retry caches the token, saves the old destination CID as OrigCID,
\* takes the packet's source CID as destination CID, sets ReceivedRetryPacket
\* and restarts with CompleteReset = FALSE; at most one Retry is accepted, and
\* a Retry that is not accepted changes no state of the connection.
C18_Retry ==
    /\ RetryAccepted =>
        /\ ~QuicConnIsServer(Connection)
        /\ ~Connection.hLast.Old.State.GotFirstServerResponse
        /\ Connection.hLast.Packet.OrigDestCID = Head(Connection.hLast.Old.DestCIDs).CID
        /\ Connection.InitialToken = Connection.hLast.Packet.Token
        /\ Connection.OrigCID = Head(Connection.hLast.Old.DestCIDs).CID
        /\ Head(Connection.DestCIDs).CID = Connection.hLast.Packet.SourceCID
        /\ Connection.hRestart = Append(Connection.hLast.Old.hRestart, FALSE)
    /\ (LastRetry /\ ~RetryAccepted) =>
            RetryState(Connection) = RetryState(Connection.hLast.Old)
    /\ Len(Connection.hRestart) <= 1

\* The destination CIDs stored from NEW_CONNECTION_ID frames.
NewDestCIDs(C) ==
    {k \in 1 .. Len(C.DestCIDs) : C.DestCIDs[k].HasResetToken}

\* The peer has sent QUIC_ACTIVE_CONNECTION_ID_LIMIT + 2 NEW_CONNECTION_ID
\* frames so far, each of them stored or ignored.
AllNewConnectionIDsSent ==
    Cardinality(NewDestCIDs(Connection)) + Connection.hIgnoredCIDs =
        QUIC_ACTIVE_CONNECTION_ID_LIMIT + 2

\* C19: once the peer has sent the NEW_CONNECTION_ID frames of the sequence
\* numbers 1 .. QUIC_ACTIVE_CONNECTION_ID_LIMIT + 2, exactly
\* QUIC_ACTIVE_CONNECTION_ID_LIMIT new destination CIDs are stored and the
\* others were ignored without a transport error, on a client and on a server.
C19_NewConnectionIDs ==
    AllNewConnectionIDsSent =>
        /\ Cardinality(NewDestCIDs(Connection)) = QUIC_ACTIVE_CONNECTION_ID_LIMIT
        /\ ~Connection.State.ClosedLocally

\* C20: DestCIDCount is at most QUIC_ACTIVE_CONNECTION_ID_LIMIT and is the
\* number of entries of DestCIDs, on a client and on a server.
C20_DestCIDCount ==
    /\ Connection.DestCIDCount <= QUIC_ACTIVE_CONNECTION_ID_LIMIT
    /\ Connection.DestCIDCount = Len(Connection.DestCIDs)

\* The latest packet was processed and held one RETIRE_CONNECTION_ID frame.
LastRetireFrame ==
    /\ Connection.hLast.Outcome = "processed"
    /\ Len(Connection.hLast.Packet.Frames) = 1
    /\ Connection.hLast.Packet.Frames[1].Type = "RETIRE_CONNECTION_ID"

\* The place in SourceCIDs of the CID the frame names, before the packet.
RetiredPlace ==
    QuicConnGetSourceCidFromSeq(Connection.hLast.Old,
                                Connection.hLast.Packet.Frames[1].Sequence)

SourceCidSet(C) == {C.SourceCIDs[k].CID : k \in 1 .. Len(C.SourceCIDs)}

\* The packet is the first the peer sends to a source CID.
FirstUse(Old, Packet) ==
    /\ Packet.DestCID.Length # 0
    /\ QuicConnGetSourceCidFromBuf(Old, Packet.DestCID) # 0
    /\ ~Old.SourceCIDs[QuicConnGetSourceCidFromBuf(Old, Packet.DestCID)].UsedByPeer

LastFirstUse(Old) == FirstUse(Old, Connection.hLast.Packet)

RetireUnknown(Old) ==
    /\ Connection.NextSourceCidSequenceNumber = Old.NextSourceCidSequenceNumber
    /\ SourceCidSet(Connection) \subseteq SourceCidSet(Old)
    /\ ~WasClosed(Connection)
    /\ ~LastFirstUse(Old) =>
        /\ Connection.SourceCIDs = Old.SourceCIDs
        /\ Connection.DestCIDs = Old.DestCIDs
        /\ Connection.State = Old.State

RetireLast(Old) ==
    /\ Connection.State.ClosedLocally
    /\ Connection.CloseErrorCode = "QUIC_ERROR_PROTOCOL_VIOLATION"
    /\ Connection.SourceCIDs = << >>
    /\ Connection.NextSourceCidSequenceNumber = Old.NextSourceCidSequenceNumber

RetireRemoved(Old) ==
    /\ Old.SourceCIDs[RetiredPlace].CID \notin SourceCidSet(Connection)
    /\ ~WasClosed(Connection)

RetireReplaced(Old) ==
    /\ Connection.NextSourceCidSequenceNumber = Old.NextSourceCidSequenceNumber + 1
    /\ SourceCidSet(Connection) \ SourceCidSet(Old) =
            {SourceCid(Old.NextSourceCidSequenceNumber)}

RetireNotReplaced(Old) ==
    /\ Connection.NextSourceCidSequenceNumber = Old.NextSourceCidSequenceNumber
    /\ SourceCidSet(Connection) \subseteq SourceCidSet(Old)

C22_Original ==
    ~Connection.State.Uninitialized => Connection.SourceCIDs # << >>

\* C22: until QuicConnUninitialize, SourceCIDs is empty only once a
\* RETIRE_CONNECTION_ID frame has retired the last source CID, which closes
\* the connection silently and completes its shutdown; retired CIDs, replacements that fail to
\* be generated and the discard of the client-chosen initial CID leave it
\* non-empty on every connection that is not closed.
C22_SourceCIDsNotEmpty ==
    (~Connection.State.Uninitialized /\ Connection.SourceCIDs = << >>) =>
        /\ Connection.State.ClosedLocally
        /\ Connection.State.HandleShutdown

C22_Witness ==
    /\ LastRetireFrame
    /\ ~Connection.State.Uninitialized
    /\ Connection.SourceCIDs = << >>
    /\ Connection.hLast.Old.SourceCIDs # << >>
    /\ Connection.hLast.Old.NextSourceCidSequenceNumber > 1

RetiredDestCids(C) == {k \in 1 .. Len(C.DestCIDs) : C.DestCIDs[k].Retired}

\* The latest operation was the forced update of the destination CID, on a
\* connection whose only destination CID that is not retired is the last.
LastForcedWithoutReplacement ==
    /\ Connection.hLast.Outcome = "FORCE_CID_UPDATE"
    /\ Connection.hLast.Old.State.HandshakeConfirmed
    /\ RetiredDestCids(Connection.hLast.Old) =
            1 .. (Len(Connection.hLast.Old.DestCIDs) - 1)

\* C23: whatever QuicConnRetireCurrentDestCid calls (forced by the
\* application or in answer to the peer's change of CID) and
\* NEW_CONNECTION_ID frames there have been, DestCIDs holds a CID that is not
\* retired, the retired CIDs are the first of the list, and a CID of no bytes
\* is never retired; a call that finds no replacement changes nothing.
C23_DestCidRetirement ==
    /\ \E k \in 1 .. Len(Connection.DestCIDs) : ~Connection.DestCIDs[k].Retired
    /\ \E n \in 0 .. Len(Connection.DestCIDs) : RetiredDestCids(Connection) = 1 .. n
    /\ \A k \in RetiredDestCids(Connection) : Connection.DestCIDs[k].CID.Length # 0
    /\ LastForcedWithoutReplacement =>
        /\ Connection.DestCIDs = Connection.hLast.Old.DestCIDs
        /\ Connection.SendFlags = Connection.hLast.Old.SendFlags

C23_Witness ==
    /\ Cardinality(RetiredDestCids(Connection)) = 2
    /\ Len(Connection.DestCIDs) = 3
    /\ LastForcedWithoutReplacement

\* The state flags of the connection but for those of Exceptions stay set
\* over the step.
FlagsStaySet(Exceptions) ==
    \A Flag \in (DOMAIN Connection.State) \ Exceptions :
        Connection.State[Flag] => Connection'.State[Flag]

ExactWeighted(k, a, b, d) ==
    <<(k * a[1] + b[1] + ((k * a[2] + b[2]) \div UINT16_RANGE)) \div d,
      (((k * a[1] + b[1] + ((k * a[2] + b[2]) \div UINT16_RANGE)) % d) * UINT16_RANGE
         + ((k * a[2] + b[2]) % UINT16_RANGE)) \div d>>

AbsDiff32(a, b) == IF Lt32(a, b) THEN Sub32(b, a) ELSE Sub32(a, b)

Between32(x, a, b) ==
    \/ ~Lt32(x, a) /\ ~Lt32(b, x)
    \/ ~Lt32(x, b) /\ ~Lt32(a, x)

\* C25: the first sample gives SmoothedRtt = latest and RttVariance =
\* latest / 2; every later sample gives RttVariance = (3 * RttVariance +
\* |SmoothedRtt - latest|) / 4 and SmoothedRtt = (7 * SmoothedRtt + latest) / 8
\* as exact integers, the new SmoothedRtt between the previous one and the
\* sample.
C25_UpdateRtt ==
    Connection.hRtt.Called =>
        IF Connection.hRtt.First
            THEN /\ Connection.SmoothedRtt = Connection.hRtt.LatestRtt
                 /\ Connection.RttVariance = Div32(Connection.hRtt.LatestRtt, 2)
            ELSE /\ Connection.RttVariance =
                        ExactWeighted(3, Connection.hRtt.RttVariance,
                                      AbsDiff32(Connection.hRtt.SmoothedRtt,
                                                Connection.hRtt.LatestRtt), 4)
                 /\ Connection.SmoothedRtt =
                        ExactWeighted(7, Connection.hRtt.SmoothedRtt,
                                      Connection.hRtt.LatestRtt, 8)
                 /\ Between32(Connection.SmoothedRtt, Connection.hRtt.SmoothedRtt,
                              Connection.hRtt.LatestRtt)

StoredParams(C) ==
    <<C.QuicVersion, C.LocalAddress, C.State.LocalAddressSet, C.RemoteAddress,
      C.State.RemoteAddressSet, C.Binding, C.IdleTimeoutMs, C.KeepAliveIntervalMs,
      C.CloseReasonPhrase, C.ServerCertValidationFlags, C.State.ShareBinding>>

StartedOnlyParams ==
    {"QUIC_VERSION", "REMOTE_ADDRESS", "IDLE_TIMEOUT", "CERT_VALIDATION_FLAGS",
     "SHARE_UDP_BINDING"}

\* C26: a QuicConnParamSet or QuicConnParamGet call that fails closes nothing
\* and leaves the stored parameters as they were; QUIC_VERSION, REMOTE_ADDRESS,
\* IDLE_TIMEOUT, CERT_VALIDATION_FLAGS and SHARE_UDP_BINDING are never set on
\* a started connection, and a call that is otherwise well-formed returns
\* INVALID_STATE there.
C26_ParamFailure ==
    Connection.hParam.Called =>
        /\ Connection.hParam.Status # "QUIC_STATUS_SUCCESS" =>
            /\ StoredParams(Connection) = StoredParams(Connection.hParam.Old)
            /\ WasClosed(Connection) = WasClosed(Connection.hParam.Old)
        /\ (/\ Connection.hParam.Set
            /\ Connection.hParam.Call.Param \in StartedOnlyParams
            /\ Connection.hParam.Old.State.Started) =>
            /\ Connection.hParam.Status # "QUIC_STATUS_SUCCESS"
            /\ (/\ Connection.hParam.Call.LengthOk
                /\ Connection.hParam.Call.Value = "valid"
                /\ ~QuicConnIsServer(Connection)) =>
                    Connection.hParam.Status = "QUIC_STATUS_INVALID_STATE"

-----------------------------------------------------------------------------
(* The close of a connection whose timers are armed *)

\* The close paths of the connection: the flags and the error code each
\* hands to QuicConnTryClose.
CloseCall(Flags, ErrorCode) == [Flags |-> Flags, ErrorCode |-> ErrorCode]

CloseCalls ==
    {\* QuicConnShutdown, with and without the silent flag
     CloseCall({QUIC_CLOSE_APPLICATION}, "APP_ERROR"),
     CloseCall({QUIC_CLOSE_APPLICATION, QUIC_CLOSE_SILENT}, "APP_ERROR"),
     \* QuicConnTransportError
     CloseCall(QUIC_CLOSE_INTERNAL, "QUIC_ERROR_PROTOCOL_VIOLATION"),
     \* the idle timeout
     CloseCall(QUIC_CLOSE_INTERNAL_SILENT \cup {QUIC_CLOSE_QUIC_STATUS},
               "QUIC_STATUS_CONNECTION_IDLE"),
     \* a CONNECTION_CLOSE frame of the transport and one of the application
     CloseCall({QUIC_CLOSE_REMOTE, QUIC_CLOSE_SEND_NOTIFICATION},
               "QUIC_ERROR_NO_ERROR"),
     CloseCall({QUIC_CLOSE_REMOTE, QUIC_CLOSE_SEND_NOTIFICATION,
                QUIC_CLOSE_APPLICATION}, "APP_ERROR")}

\* The timers the send path and the loss detection arm, and their delays in
\* milliseconds.
SendTimerTypes ==
    {QUIC_CONN_TIMER_PACING, QUIC_CONN_TIMER_ACK_DELAY,
     QUIC_CONN_TIMER_LOSS_DETECTION}
SendTimerDelays == {1, 25}

\* Timers armed, closes and timer expirations in one behaviour.
MaxCloseCalls == 3

CloseSettings == {<<5000, 0, 0>>, <<8700, 30, 20>>}

\* hTryClose: the latest QuicConnTryClose, the connection it found and the
\* connection it returned.
CloseInit ==
    /\ now = 0
    /\ \E IsServer \in BOOLEAN, Setting \in CloseSettings :
         \E Phase \in Phases(IsServer), CallbackClose \in 0 .. 2 :
            Connection = [StartOf(IsServer, Phase, Setting) EXCEPT
                            !.hCallbackClose = CallbackClose]
    /\ OperQ = InitialOperQ
    /\ ReceiveQueue = << >>
    /\ Worker = InitialWorker
    /\ Drain = InitialDrain
    /\ Env = [Inputs |-> 0, hTryClose |-> [Called |-> FALSE]]

\* The send path or the loss detection arms one of its timers.
SendTimerSet(Type, Delay) ==
    /\ Env.Inputs < MaxCloseCalls
    /\ ~Connection.State.HandleShutdown
    /\ Connection' = QuicConnTimerSet(Connection, Type, Delay)
    /\ Env' = [Env EXCEPT !.Inputs = @ + 1]
    /\ UNCHANGED <<now, OperQ, ReceiveQueue, Worker, Drain>>

\* A drain whose only operation closes the connection.
CloseDrain(Call) ==
    /\ Env.Inputs < MaxCloseCalls
    /\ ~Connection.State.Uninitialized
    /\ Connection' =
            DrainFinish(QuicConnTryClose(Connection, Call.Flags, Call.ErrorCode))
    /\ Env' = [Env EXCEPT
                !.Inputs = @ + 1,
                !.hTryClose =
                    [Called |-> TRUE, Call |-> Call, Time |-> now,
                     Old |-> Connection,
                     C |-> QuicConnTryClose(Connection, Call.Flags,
                                            Call.ErrorCode)]]
    /\ UNCHANGED <<now, OperQ, ReceiveQueue, Worker, Drain>>

\* The operations of the timers in Temp, in the order QuicConnTimerExpired
\* queued them; PACING and ACK_DELAY are handled inline by the send path, and
\* the drain stops once the handle is closed.
RECURSIVE ExpiredTimerOperations(_, _)
ExpiredTimerOperations(C, Temp) ==
    IF Temp = << >> \/ C.State.HandleClosed THEN C
    ELSE ExpiredTimerOperations(
            IF Head(Temp) \in {QUIC_CONN_TIMER_PACING, QUIC_CONN_TIMER_ACK_DELAY}
                THEN C
                ELSE QuicConnProcessExpiredTimer(C, Head(Temp)),
            Tail(Temp))

\* The timers that are due expire and one drain processes their operations.
TimerExpiredDrain ==
    /\ Env.Inputs < MaxCloseCalls
    /\ ~Connection.State.Uninitialized
    /\ Connection.Timers[0].ExpirationTime <= now
    /\ Connection' =
            DrainFinish(ExpiredTimerOperations(
                [Connection EXCEPT
                    !.Timers = TimerExpiredArray(Connection.Timers, now).Timers],
                TimerExpiredArray(Connection.Timers, now).Temp))
    /\ Env' = [Env EXCEPT !.Inputs = @ + 1]
    /\ UNCHANGED <<now, OperQ, ReceiveQueue, Worker, Drain>>

CloseNext ==
    \/ \E Type \in SendTimerTypes, Delay \in SendTimerDelays :
            SendTimerSet(Type, Delay)
    \/ \E Call \in CloseCalls : CloseDrain(Call)
    \/ AdvanceTime
    \/ TimerExpiredDrain

CloseSpec == CloseInit /\ [][CloseNext]_vars

\* The latest QuicConnTryClose was the first close of the connection.
LastCloseWasFirst ==
    /\ Env.hTryClose.Called
    /\ ~WasClosed(Env.hTryClose.Old)

\* C27: when the first close of a connection, in either direction, returns
\* from QuicConnTryClose, the PACING, ACK_DELAY, LOSS_DETECTION, KEEP_ALIVE
\* and IDLE timers are all unarmed.
C27_TimersCancelled ==
    LastCloseWasFirst =>
        \A Type \in TimerTypes \ {QUIC_CONN_TIMER_SHUTDOWN} :
            ~TimerArmed(Env.hTryClose.C, Type)

\* The latest QuicConnTryClose was the peer's non-silent close of a
\* connection that had closed locally, without a silent close, and whose
\* shutdown was not complete.
PeerClosedAfterLocal ==
    /\ Env.hTryClose.Called
    /\ QUIC_CLOSE_REMOTE \in Env.hTryClose.Call.Flags
    /\ QUIC_CLOSE_SILENT \notin Env.hTryClose.Call.Flags
    /\ Env.hTryClose.Old.State.ClosedLocally
    /\ ~Env.hTryClose.Old.State.ClosedRemotely
    /\ ~Env.hTryClose.Old.hSilent
    /\ ~Env.hTryClose.Old.State.HandleShutdown
    /\ ~Env.hTryClose.Old.State.HandleClosed

TimerExpiration(C, Type) ==
    C.Timers[TimerCurIndex(C.Timers, Type)].ExpirationTime

\* The server's QuicConnTryClose armed the SHUTDOWN timer for the draining
\* period, max(15, 2 * SmoothedRtt) in the timer's milliseconds.
TrailingDrainArmed ==
    TimerExpiration(Env.hTryClose.C, QUIC_CONN_TIMER_SHUTDOWN) =
        Env.hTryClose.Time + MS_TO_US(DrainingPeriodMs(Env.hTryClose.Old))

\* C28: when the peer's non-silent close arrives after a local close, a
\* client has completed its shutdown when the drain returns, whereas a server
\* arms the SHUTDOWN timer for max(15 ms, 2 * SmoothedRtt) and completes its
\* shutdown only when the operation of that timer is processed.
C28_TrailingDrain ==
    PeerClosedAfterLocal =>
        IF QuicConnIsServer(Connection)
            THEN /\ TrailingDrainArmed
                 /\ Connection.State.HandleShutdown => Connection.hTimerOpRan
            ELSE Connection.State.HandleShutdown

\* The events the latest QuicConnTryClose indicated to the application.
CloseEvents ==
    SubSeq(Env.hTryClose.C.hEvents, Len(Env.hTryClose.Old.hEvents) + 1,
           Len(Env.hTryClose.C.hEvents))

ShutdownInitiated ==
    {"SHUTDOWN_INITIATED_BY_PEER", "SHUTDOWN_INITIATED_BY_TRANSPORT"}

\* The latest QuicConnTryClose indicated SHUTDOWN_INITIATED, once.
CloseIndicated ==
    /\ Len(CloseEvents) = 1
    /\ CloseEvents[1].Type \in ShutdownInitiated

\* The SHUTDOWN_INITIATED indications the application has received.
ShutdownInitiatedEvents ==
    {k \in 1 .. Len(Connection.hEvents) :
        Connection.hEvents[k].Type \in ShutdownInitiated}

\* C29 as stated: on the first close of a connection that has an external
\* owner SHUTDOWN_INITIATED is indicated exactly when the close carries the
\* APPLICATION flag, and at most once per connection.
C29_Original ==
    /\ (LastCloseWasFirst /\ Env.hTryClose.Old.State.ExternalOwner) =>
            (CloseIndicated <=>
                QUIC_CLOSE_APPLICATION \in Env.hTryClose.Call.Flags)
    /\ Cardinality(ShutdownInitiatedEvents) <= 1

\* C29: on the first close of a connection that has an external owner
\* SHUTDOWN_INITIATED is indicated exactly when the close carries the
\* SEND_NOTIFICATION flag, as SHUTDOWN_INITIATED_BY_PEER when it also carries
\* the APPLICATION flag and as SHUTDOWN_INITIATED_BY_TRANSPORT otherwise; no
\* other close indicates anything, so it is indicated at most once per
\* connection.
C29_ShutdownInitiated ==
    /\ (LastCloseWasFirst /\ Env.hTryClose.Old.State.ExternalOwner) =>
        /\ CloseIndicated <=>
                QUIC_CLOSE_SEND_NOTIFICATION \in Env.hTryClose.Call.Flags
        /\ CloseIndicated =>
                (CloseEvents[1].Type = "SHUTDOWN_INITIATED_BY_PEER" <=>
                    QUIC_CLOSE_APPLICATION \in Env.hTryClose.Call.Flags)
    /\ (Env.hTryClose.Called /\
        ~(LastCloseWasFirst /\ Env.hTryClose.Old.State.ExternalOwner)) =>
            CloseEvents = << >>
    /\ Cardinality(ShutdownInitiatedEvents) <= 1

\* The first close of a connection with an external owner carried the
\* SEND_NOTIFICATION flag without the APPLICATION flag and was indicated.
C29_Witness ==
    /\ LastCloseWasFirst
    /\ Env.hTryClose.Old.State.ExternalOwner
    /\ QUIC_CLOSE_APPLICATION \notin Env.hTryClose.Call.Flags
    /\ CloseIndicated
    /\ CloseEvents[1].Type = "SHUTDOWN_INITIATED_BY_TRANSPORT"

\* The latest QuicConnTryClose was for a side that was closed already; it was
\* a silent close forced after a local close.
LastCloseWasAgain ==
    /\ Env.hTryClose.Called
    /\ TryCloseAlreadyClosed(Env.hTryClose.Old, Env.hTryClose.Call.Flags)

LastCloseWasForcedSilent ==
    /\ LastCloseWasAgain
    /\ QUIC_CLOSE_SILENT \in Env.hTryClose.Call.Flags
    /\ Env.hTryClose.Old.State.ClosedLocally
    /\ ~Env.hTryClose.Old.State.ClosedRemotely

\* The fields of the connection, its history apart.
ConnectionFields(C) ==
    [C EXCEPT !.hSilent = FALSE, !.hBoth = FALSE, !.hBothBeforeTimer = FALSE,
              !.hPeerFirst = [Happened |-> FALSE]]

\* C30: CloseStatus, CloseErrorCode and AppClosed are written only by the
\* first close of the connection: a QuicConnTryClose for a side that is
\* closed already changes no field of the connection, except that a silent
\* close after a local close sets SendShutdownCompleteNotif and clears
\* ShutdownCompleteTimedOut, and the later close of the other side leaves
\* CloseStatus, CloseErrorCode and AppClosed as they were.
C30_FirstCloseWrites ==
    /\ (LastCloseWasAgain /\ ~LastCloseWasForcedSilent) =>
            ConnectionFields(Env.hTryClose.C) = ConnectionFields(Env.hTryClose.Old)
    /\ LastCloseWasForcedSilent =>
        /\ Env.hTryClose.C.State.SendShutdownCompleteNotif
        /\ ~Env.hTryClose.C.State.ShutdownCompleteTimedOut
        /\ ConnectionFields(Env.hTryClose.C) =
                ConnectionFields([Env.hTryClose.Old EXCEPT
                    !.State.SendShutdownCompleteNotif = TRUE,
                    !.State.ShutdownCompleteTimedOut = FALSE])
    /\ (Env.hTryClose.Called /\ WasClosed(Env.hTryClose.Old)) =>
        /\ Env.hTryClose.C.CloseStatus = Env.hTryClose.Old.CloseStatus
        /\ Env.hTryClose.C.CloseErrorCode = Env.hTryClose.Old.CloseErrorCode
        /\ Env.hTryClose.C.State.AppClosed = Env.hTryClose.Old.State.AppClosed

\* In every step of the connection, a close or not, the three fields of a
\* closed connection stay as they are.
C30_ClosedKeepsStatus ==
    [][WasClosed(Connection) =>
        /\ Connection'.CloseStatus = Connection.CloseStatus
        /\ Connection'.CloseErrorCode = Connection.CloseErrorCode
        /\ Connection'.State.AppClosed = Connection.State.AppClosed]_vars

\* The application's close of a connection the peer's transport close had
\* closed first: the other side closes later, with another error code and
\* the APPLICATION flag, and the three fields keep what the first close wrote.
C30_Witness ==
    /\ Env.hTryClose.Called
    /\ ~TryCloseAlreadyClosed(Env.hTryClose.Old, Env.hTryClose.Call.Flags)
    /\ Env.hTryClose.Old.State.ClosedRemotely
    /\ QUIC_CLOSE_APPLICATION \in Env.hTryClose.Call.Flags
    /\ Env.hTryClose.C.State.ClosedLocally
    /\ ~Env.hTryClose.C.State.AppClosed
    /\ Env.hTryClose.C.CloseStatus = "QUIC_STATUS_SUCCESS"
    /\ Env.hTryClose.C.CloseErrorCode = "QUIC_ERROR_NO_ERROR"

\* C31: whenever QuicConnTimerSet or QuicConnTimerCancel changes the entry at
\* index 0 of the timer array, its type or its expiration, it calls
\* QuicTimerWheelUpdateConnection.
C31_WheelNotified == Env.hWheel.HeadChanged => Env.hWheel.WheelUpdated

\* The same of QuicConnTimerCancel alone.
CancelNotifiesWheel ==
    (Env.hWheel.Call = "QuicConnTimerCancel" /\ Env.hWheel.HeadChanged) =>
        Env.hWheel.WheelUpdated

\* The expiration of the timer of this type in the array.
ExpirationIn(Timers, Type) ==
    Timers[TimerCurIndex(Timers, Type)].ExpirationTime

\* The timers the latest QuicConnTimerExpired found due, and the types of
\* the operations it queued, in the order of the queue.
ExpiredTypes ==
    {Type \in TimerTypes :
        ExpirationIn(Env.hExpired.Old, Type) <= Env.hExpired.TimeNow}

ExpiredQueued ==
    [k \in 1 .. (Len(OperQ.List) - Env.hExpired.Queued) |->
        OperQ.List[Env.hExpired.Queued + k]]

\* It disarmed exactly the timers that were due and left the others alone.
ExpiredDisarmed ==
    \A Type \in TimerTypes :
        ExpirationIn(Connection.Timers, Type) =
            IF Type \in ExpiredTypes
                THEN UINT64_MAX
                ELSE ExpirationIn(Env.hExpired.Old, Type)

\* It queued one TIMER_EXPIRED operation for each timer of Types, in
\* ascending order of expiration, and nothing else.
ExpiredOperations(Types) ==
    /\ Len(ExpiredQueued) = Cardinality(Types)
    /\ \A k \in 1 .. Len(ExpiredQueued) :
        /\ ExpiredQueued[k].Type = QUIC_OPER_TYPE_TIMER_EXPIRED
        /\ ExpiredQueued[k].Arg.Timer \in Types
        /\ \A l \in 1 .. Len(ExpiredQueued) :
            k < l =>
                /\ ExpiredQueued[k].Arg.Timer # ExpiredQueued[l].Arg.Timer
                /\ ExpirationIn(Env.hExpired.Old, ExpiredQueued[k].Arg.Timer) <=
                   ExpirationIn(Env.hExpired.Old, ExpiredQueued[l].Arg.Timer)

\* PACING and ACK_DELAY are handled inline: one send flush after the loop
\* when one of them was due, none otherwise.
ExpiredFlush ==
    Env.hExpired.FlushSendImmediate <=>
        ExpiredTypes \cap
            {QUIC_CONN_TIMER_ACK_DELAY, QUIC_CONN_TIMER_PACING} # {}

\* C32: QuicConnTimerExpired disarms exactly the timers whose expiration is
\* <= now and leaves the others armed with unchanged expirations; it queues
\* one TIMER_EXPIRED operation for each expired LOSS_DETECTION, KEEP_ALIVE,
\* IDLE or SHUTDOWN timer, in ascending order of expiration, handles PACING
\* and ACK_DELAY inline and flushes the send at most once, after the loop.
C32_TimerExpired ==
    Env.hExpired.Called =>
        /\ ExpiredDisarmed
        /\ ExpiredOperations(ExpiredTypes \cap TimerOperationTypes)
        /\ ExpiredFlush

\* What QuicConnTimerExpired does when allocations fail: the timers of Fail
\* are disarmed like the others and get no operation.
TimerExpiredWithFailures ==
    Env.hExpired.Called =>
        /\ ExpiredDisarmed
        /\ ExpiredOperations(
                (ExpiredTypes \cap TimerOperationTypes) \ Env.hExpired.Fail)
        /\ ExpiredFlush


-----------------------------------------------------------------------------
(* Coalesced packets: datagrams that hold packets of more than one level *)

\* A datagram of several packets: the first packet, with the packets that
\* follow it in the datagram.
CoalescedDatagram(Packets) == [Head(Packets) EXCEPT !.Coalesced = Tail(Packets)]

PingPacket(Type, PacketNumber) ==
    NewPacket(Type, PacketNumber, TRUE, TRUE, "T0", <<Frame("PING", FALSE, "-")>>)

\* The datagrams of the peer during the handshake: one packet, or the packets
\* of rising levels coalesced; and a Handshake packet that does not decrypt
\* ahead of a 1-RTT packet.
CoalescedDatagramSet ==
    {CoalescedDatagram(<<PingPacket(Type, 0)>>) :
        Type \in {"INITIAL", "HANDSHAKE", "1RTT"}}
    \cup
    {CoalescedDatagram(<<PingPacket("INITIAL", 1), PingPacket("HANDSHAKE", 1)>>),
     CoalescedDatagram(<<PingPacket("HANDSHAKE", 1), PingPacket("1RTT", 1)>>),
     CoalescedDatagram(<<PingPacket("INITIAL", 1), PingPacket("HANDSHAKE", 1),
                         PingPacket("1RTT", 1)>>),
     CoalescedDatagram(<<NewPacket("HANDSHAKE", 0, FALSE, TRUE, "T1", << >>),
                         PingPacket("1RTT", 0)>>)}

CoalescedNext ==
    \/ \E D \in CoalescedDatagramSet : FlushRecvDrain(<<D>>)
    \/ CryptoNewReadKey

CoalescedSpec == RecvInit /\ [][CoalescedNext]_vars

\* The datagrams on the deferred lists.
DeferredDatagramsOf(C) ==
    UNION {{C.Packets[L].DeferredDatagrams[k] :
                k \in 1 .. Len(C.Packets[L].DeferredDatagrams)} :
           L \in DOMAIN C.Packets}

\* C33: a datagram is never deferred twice: a datagram that was put on a
\* deferred list for a missing read key and run again by QuicConnFlushDeferred
\* is never put on a deferred list again, whatever it holds, coalesced
\* packets of a higher level whose key is still missing included.
C33_NeverDeferredTwice ==
    \A D \in DeferredDatagramsOf(Connection) : D.hDeferrals <= 1

\* A datagram is deferred twice only for a coalesced packet of a higher level
\* than the one it was deferred for first.
DeferredTwiceForHigherLevel ==
    \A L \in DOMAIN Connection.Packets :
        \A k \in 1 .. Len(Connection.Packets[L].DeferredDatagrams) :
            Connection.Packets[L].DeferredDatagrams[k].hDeferrals > 1
                => /\ L = "QUIC_ENCRYPT_LEVEL_1_RTT"
                   /\ Connection.Packets[L].DeferredDatagrams[k].hDeferrals = 2


-----------------------------------------------------------------------------
(* The frames a packet of each type may carry *)

\* The frames of the peer, and the payloads: one frame, or a frame ahead of a
\* NEW_CONNECTION_ID or a CONNECTION_CLOSE frame.
PayloadFrames ==
    {Frame(Type, FALSE, "-") :
        Type \in {"PADDING", "PING", "ACK", "CRYPTO", "STREAMS_BLOCKED"}}
    \cup
    {Frame("CONNECTION_CLOSE", FALSE, "QUIC_ERROR_PROTOCOL_VIOLATION"),
     Frame("CONNECTION_CLOSE", TRUE, "APP_ERROR"),
     NewConnectionIDFrame(1, "T1")}

FramePayloads ==
    {<<F>> : F \in PayloadFrames}
    \cup
    {<<F, G>> : F \in PayloadFrames,
                G \in {NewConnectionIDFrame(1, "T1"),
                       Frame("CONNECTION_CLOSE", FALSE, "QUIC_ERROR_PROTOCOL_VIOLATION")}}

FramePacketSet ==
    {NewPacket(Type, 0, TRUE, TRUE, "T0", Frames) :
        Type \in {"INITIAL", "0RTT", "HANDSHAKE", "1RTT"},
        Frames \in FramePayloads}

\* A connected connection that holds the keys of every type; the server holds
\* the 0-RTT key too.
FrameInitOf(C) ==
    IF QuicConnIsServer(C)
        THEN [C EXCEPT !.ReadKeys = @ \cup {QUIC_PACKET_KEY_0_RTT}]
        ELSE C

FrameInit ==
    /\ now = 0
    /\ \E IsServer \in BOOLEAN :
         Connection = FrameInitOf(
            QuicConnAlloc(IsServer, "connected", QUIC_PACKET_KEY_1_RTT))
    /\ OperQ = InitialOperQ
    /\ ReceiveQueue = << >>
    /\ Worker = InitialWorker
    /\ Drain = InitialDrain
    /\ Env = InitialEnv

FrameNext == \E P \in FramePacketSet : FlushRecvDrain(<<P>>)

FrameSpec == FrameInit /\ [][FrameNext]_vars

\* The frames C34 allows in a packet of the type.
AllowedAtLevel(F, Type) ==
    IF Type \in {"INITIAL", "HANDSHAKE"}
        THEN \/ F.Type \in {"PADDING", "PING", "ACK", "CRYPTO"}
             \/ F.Type = "CONNECTION_CLOSE" /\ ~F.ApplicationClosed
    ELSE IF Type = "0RTT" THEN F.Type # "ACK"
    ELSE TRUE

\* The latest packet was decrypted, its number was new, and frame k of its
\* payload is the first one its type may not carry.
LastReadPayload == Connection.hLast.Outcome \in {"processed", "payload failed"}

FirstNotAllowed(k) ==
    /\ LastReadPayload
    /\ k \in 1 .. Len(Connection.hLast.Packet.Frames)
    /\ ~AllowedAtLevel(Connection.hLast.Packet.Frames[k], Connection.hLast.Packet.Type)
    /\ \A j \in 1 .. (k - 1) :
            AllowedAtLevel(Connection.hLast.Packet.Frames[j],
                           Connection.hLast.Packet.Type)

\* The packet cut before frame k, with a frame that does not decode in its
\* place.
CutAt(Packet, k) ==
    [Packet EXCEPT !.Frames = Append(SubSeq(@, 1, k - 1),
                                     Frame("MALFORMED", FALSE, "-"))]

NoLast(C) == [C EXCEPT !.hLast = [Outcome |-> "none"]]

\* The latest packet left the connection as the packet cut before frame k
\* would have: with a transport error, and with no frame from k on dispatched.
AbandonedAt(k) ==
    /\ Connection.hLast.Outcome = "payload failed"
    /\ Connection.State.ClosedLocally
    /\ NoLast(Connection) =
            NoLast(DrainFinish(QuicConnRecvPackets(
                Connection.hLast.Old, <<CutAt(Connection.hLast.Packet, k)>>)))

\* C34: frames are dispatched only if allowed at the packet's encryption
\* level: an Initial or Handshake packet may carry only PADDING, PING, ACK,
\* CRYPTO and the transport CONNECTION_CLOSE, and a 0-RTT packet no ACK; any
\* other frame raises a transport error and the rest of the packet is
\* abandoned without being dispatched.
C34_AllowedAtLevel ==
    \A k \in 1 .. 2 : FirstNotAllowed(k) => AbandonedAt(k)

\* The same, but for the application's CONNECTION_CLOSE in an Initial or
\* Handshake packet.
ApplicationCloseBefore1Rtt(k) ==
    /\ Connection.hLast.Packet.Type \in {"INITIAL", "HANDSHAKE"}
    /\ \E j \in 1 .. k :
            /\ Connection.hLast.Packet.Frames[j].Type = "CONNECTION_CLOSE"
            /\ Connection.hLast.Packet.Frames[j].ApplicationClosed

DisallowedAbandoned ==
    \A k \in 1 .. 2 :
        FirstNotAllowed(k) /\ ~ApplicationCloseBefore1Rtt(k) => AbandonedAt(k)

\* The application's CONNECTION_CLOSE in a Handshake packet was dispatched.
ApplicationCloseDispatched ==
    /\ FirstNotAllowed(1)
    /\ ApplicationCloseBefore1Rtt(1)
    /\ Connection.hLast.Outcome = "processed"
    /\ Connection.State.ClosedRemotely
    /\ ~Connection.hLast.Old.State.ClosedRemotely


-----------------------------------------------------------------------------
(* The transport parameters of the peer *)

\* Connection->PeerTransportParams, as the TLS engine has decoded it.
TransportParams(Flags, OriginalConnectionID) ==
    [Flags |-> Flags, OriginalConnectionID |-> OriginalConnectionID,
     StatelessResetToken |-> "T9", InitialMaxData |-> 100,
     InitialMaxBidiStreams |-> 4, InitialMaxUniStreams |-> 2]

\* The end of QuicConnProcessPeerTransportParameters: the peer's flow-control
\* ceiling is taken over, and QuicStreamSetInitializeTransportParameters is
\* given the stream counts of the peer.
PeerParamsApply(C, TP, FromCache) ==
    [C EXCEPT !.PeerMaxData = TP.InitialMaxData,
              !.hPeerStreams = [Bidi |-> TP.InitialMaxBidiStreams,
                                Uni |-> TP.InitialMaxUniStreams,
                                FlushIfUnblocked |-> ~FromCache]]

\* The original connection ID of the parameters is the one saved from the
\* Retry packet: the same length and the same bytes.
PeerParamsValidOrigCID(C, TP) ==
    /\ "QUIC_TP_FLAG_ORIGINAL_CONNECTION_ID" \in TP.Flags
    /\ TP.OriginalConnectionID.Length = C.OrigCID.Length
    /\ TP.OriginalConnectionID.Data = C.OrigCID.Data

\* The validation skips the client that received no Retry packet.
PeerParamsValidateRetryOnly(C, TP, FromCache) ==
    IF C.State.ReceivedRetryPacket
        THEN IF PeerParamsValidOrigCID(C, TP)
                THEN PeerParamsApply([C EXCEPT !.OrigCID = NULL_CID], TP, FromCache)
                ELSE QuicConnTransportError(C, "QUIC_ERROR_TRANSPORT_PARAMETER_ERROR")
        ELSE PeerParamsApply(C, TP, FromCache)

\* The validation of the original connection ID, and what follows it.
PeerParamsValidate(C, TP, FromCache) ==
    IF C.State.ReceivedRetryPacket
        THEN IF PeerParamsValidOrigCID(C, TP)
                THEN PeerParamsApply([C EXCEPT !.OrigCID = NULL_CID], TP, FromCache)
                ELSE QuicConnTransportError(C, "QUIC_ERROR_TRANSPORT_PARAMETER_ERROR")
    ELSE IF /\ ~QuicConnIsServer(C) /\ ~FromCache
            /\ "QUIC_TP_FLAG_ORIGINAL_CONNECTION_ID" \in TP.Flags
        THEN QuicConnTransportError(C, "QUIC_ERROR_TRANSPORT_PARAMETER_ERROR")
        ELSE PeerParamsApply(C, TP, FromCache)

\* QuicConnProcessPeerTransportParameters: the stateless reset token of the
\* server goes to the first destination CID, then the original connection ID
\* is validated.
QuicConnProcessPeerTransportParameters(C, TP, FromCache) ==
    PeerParamsValidate(
        IF "QUIC_TP_FLAG_STATELESS_RESET_TOKEN" \in TP.Flags
            THEN [C EXCEPT !.DestCIDs[1].ResetToken = TP.StatelessResetToken,
                           !.DestCIDs[1].HasResetToken = TRUE]
            ELSE C,
        TP, FromCache)

\* The parameters a peer may send: a client sends no stateless reset token.
\* The original connection ID is the one the client chose first, one of the
\* same length and other bytes, or one of another length.
PeerParamSet(IsServer) ==
    {TransportParams(Flags, OriginalConnectionID) :
        Flags \in SUBSET (IF IsServer
                            THEN {"QUIC_TP_FLAG_ORIGINAL_CONNECTION_ID"}
                            ELSE {"QUIC_TP_FLAG_ORIGINAL_CONNECTION_ID",
                                  "QUIC_TP_FLAG_STATELESS_RESET_TOKEN"}),
        OriginalConnectionID \in {D0, S1, S2}}

NoPeerParams == [Called |-> FALSE]

PeerParamInit ==
    /\ now = 0
    /\ \E IsServer \in BOOLEAN :
         Connection =
            QuicConnAlloc(IsServer, "started", QUIC_PACKET_KEY_INITIAL) @@
            [PeerMaxData |-> 0,
             hPeerStreams |-> [Bidi |-> 0, Uni |-> 0, FlushIfUnblocked |-> FALSE],
             hPeerParams |-> NoPeerParams]
    /\ OperQ = InitialOperQ
    /\ ReceiveQueue = << >>
    /\ Worker = InitialWorker
    /\ Drain = InitialDrain
    /\ Env = InitialEnv

\* The Retry and Initial packets of a server.
PeerParamPacketSet ==
    {RetryPacket(D0, S1, "none"), RetryPacket(S1, S1, "none"),
     RetryPacket(D0, S2, "none"), RetryPacket(D0, S1, "OrigCID"),
     RetryPacket(D0, S1, "InitialKeys"),
     InitialPacket(S1, TRUE), InitialPacket(S2, TRUE)}

\* The TLS engine hands the parameters of the peer over, once in a
\* handshake. QuicConnStart hands the cached ones of an earlier connection
\* over before the first packet of the server.
ProcessPeerTransportParameters(TP, FromCache) ==
    /\ ~Connection.hPeerParams.Called
    /\ Connection.DestCIDs # << >>
    /\ FromCache => /\ ~QuicConnIsServer(Connection)
                    /\ ~Connection.State.GotFirstServerResponse
    /\ Connection' =
         [DrainFinish(QuicConnProcessPeerTransportParameters(
                        Connection, TP, FromCache))
            EXCEPT !.hLast = [Outcome |-> "none"],
                   !.hPeerParams = [Called |-> ~FromCache, TP |-> TP,
                                    FromCache |-> FromCache,
                                    Old |-> [Connection EXCEPT
                                                !.hLast = [Outcome |-> "none"],
                                                !.hPeerParams = NoPeerParams]]]
    /\ UNCHANGED <<now, OperQ, ReceiveQueue, Worker, Drain, Env>>

PeerParamNext ==
    \/ \E P \in PeerParamPacketSet : FlushRecvDrain(<<P>>)
    \/ \E FromCache \in BOOLEAN,
          TP \in PeerParamSet(QuicConnIsServer(Connection)) :
            ProcessPeerTransportParameters(TP, FromCache)

PeerParamSpec == PeerParamInit /\ [][PeerParamNext]_vars

\* A client has processed the parameters of the server's handshake, and no
\* packet since.
ClientProcessedPeerParams ==
    /\ Connection.hPeerParams.Called
    /\ Connection.hLast.Outcome = "none"
    /\ ~Connection.hPeerParams.FromCache
    /\ ~QuicConnIsServer(Connection)

\* What C35 requires of the parameters: after a Retry the original connection
\* ID the client saved, and without a Retry none.
OrigCIDAsRequired(Old, TP) ==
    IF Old.State.ReceivedRetryPacket
        THEN /\ "QUIC_TP_FLAG_ORIGINAL_CONNECTION_ID" \in TP.Flags
             /\ TP.OriginalConnectionID = Old.OrigCID
        ELSE "QUIC_TP_FLAG_ORIGINAL_CONNECTION_ID" \notin TP.Flags

PeerParamsRejected(C, Old) ==
    /\ C.State.ClosedLocally
    /\ ~Old.State.ClosedLocally =>
            C.CloseErrorCode = "QUIC_ERROR_TRANSPORT_PARAMETER_ERROR"
    /\ C.PeerMaxData = Old.PeerMaxData
    /\ C.hPeerStreams = Old.hPeerStreams

PeerParamsApplied(C, Old, TP) ==
    /\ C.State.ClosedLocally = Old.State.ClosedLocally
    /\ C.PeerMaxData = TP.InitialMaxData
    /\ C.hPeerStreams.Bidi = TP.InitialMaxBidiStreams
    /\ C.hPeerStreams.Uni = TP.InitialMaxUniStreams

\* C35: when a client processes the peer's transport parameters of the
\* handshake, they must hold the saved original connection ID if the client
\* accepted a Retry, and none if it accepted no Retry; else the connection
\* raises TRANSPORT_PARAMETER_ERROR and takes over neither the flow-control
\* ceiling nor the stream counts of the peer.
C35_OrigCIDValidated ==
    ClientProcessedPeerParams =>
        IF OrigCIDAsRequired(Connection.hPeerParams.Old, Connection.hPeerParams.TP)
            THEN PeerParamsApplied(Connection, Connection.hPeerParams.Old,
                                   Connection.hPeerParams.TP)
            ELSE PeerParamsRejected(Connection, Connection.hPeerParams.Old)

\* A client that accepted a Retry has rejected parameters whose original
\* connection ID has the bytes of another one.
C35_Witness ==
    /\ ClientProcessedPeerParams
    /\ Connection.hPeerParams.Old.State.ReceivedRetryPacket
    /\ "QUIC_TP_FLAG_ORIGINAL_CONNECTION_ID" \in Connection.hPeerParams.TP.Flags
    /\ Connection.hPeerParams.TP.OriginalConnectionID = S1
    /\ Connection.CloseErrorCode = "QUIC_ERROR_TRANSPORT_PARAMETER_ERROR"
    /\ Connection.PeerMaxData = 0

\* A client that accepted no Retry has rejected parameters that hold an
\* original connection ID.
PeerParamsRejectedWithoutRetry ==
    /\ ClientProcessedPeerParams
    /\ ~Connection.hPeerParams.Old.State.ReceivedRetryPacket
    /\ "QUIC_TP_FLAG_ORIGINAL_CONNECTION_ID" \in Connection.hPeerParams.TP.Flags
    /\ Connection.CloseErrorCode = "QUIC_ERROR_TRANSPORT_PARAMETER_ERROR"


-----------------------------------------------------------------------------
(* The inline send flush of QuicConnDrainOperations *)

\* The ACK tracker asks for an immediate ACK of a packet of the FLUSH_RECV
\* operation the loop has just dispatched.
AckTrackerImmediateAck ==
    /\ Drain.hDispatch # << >>
    /\ Drain.hDispatch[1].Type = QUIC_OPER_TYPE_FLUSH_RECV
    /\ "QUIC_CONN_SEND_FLAG_ACK" \notin Connection.SendFlags
    /\ Connection' = QuicSendSetSendFlag(Connection, "QUIC_CONN_SEND_FLAG_ACK")
    /\ UNCHANGED <<now, OperQ, ReceiveQueue, Worker, Drain, Env>>

FlushApiCalls ==
    {ApiArg(QUIC_API_TYPE_GET_PARAM, FALSE, "-"),
     ApiArg(QUIC_API_TYPE_CONN_CLOSE, FALSE, "-")}

FlushNext ==
    \/ \E ApiCtx \in FlushApiCalls : ApiCall(ApiCtx)
    \/ \E Datagram \in QueueDatagrams : QuicConnQueueRecvDatagram(Datagram, TRUE)
    \/ QuicSendQueueFlush
    \/ AckTrackerImmediateAck
    \/ WorkerStartDrain("T1", TRUE)
    \/ \E MoreToSend \in BOOLEAN : DrainStep("T1", 0, MoreToSend)
    \/ DrainEnd("T1", 0)

FlushSpec == QueueInit /\ [][FlushNext]_vars

\* QuicConnDrainOperations has returned after the inline send flush.
ReturnedAfterFlushSend == Drain.Inside = {} /\ Drain.hFlushSend

\* C36: after the drain loop the inline send flush is performed only if the
\* loop stopped because MaxOperationsPerDrain operations had been
\* dispatched, an immediate ACK is pending and the handle is open; never
\* when the loop stopped because the operation queue was empty.
C36_FlushAfterLimit ==
    ReturnedAfterFlushSend =>
        /\ Drain.OperationCount = MaxOperationsPerDrain
        /\ ~Drain.hEmpty
        /\ "QUIC_CONN_SEND_FLAG_ACK" \in Connection.SendFlags
        /\ ~Connection.State.HandleClosed

\* The flush is performed after MaxOperationsPerDrain operations, or after
\* one operation less when the queue was found empty then.
FlushAfterLimitOrOneLess ==
    ReturnedAfterFlushSend =>
        /\ \/ Drain.OperationCount = MaxOperationsPerDrain /\ ~Drain.hEmpty
           \/ Drain.OperationCount = MaxOperationsPerDrain - 1 /\ Drain.hEmpty
        /\ "QUIC_CONN_SEND_FLAG_ACK" \in Connection.SendFlags
        /\ ~Connection.State.HandleClosed

\* The flush was performed after the loop had stopped on an empty queue.
FlushOnEmptyQueue ==
    /\ ReturnedAfterFlushSend
    /\ Drain.hEmpty
    /\ Drain.OperationCount < MaxOperationsPerDrain

\* The flush was performed after MaxOperationsPerDrain operations.
FlushAtLimit ==
    /\ ReturnedAfterFlushSend
    /\ ~Drain.hEmpty
    /\ Drain.OperationCount = MaxOperationsPerDrain


\* No thread is inside QuicConnDrainOperations: the latest call, if any, has
\* returned.
NoDrainRunning == Drain.Inside = {}

\* QuicConnUninitialize has run once if the connection is uninitialized, and
\* never else; an uninitialized connection is one whose handle is closed.
UninitializedOnce ==
    /\ Connection.hUninitialize = (IF Connection.State.Uninitialized THEN 1 ELSE 0)
    /\ Connection.State.Uninitialized => Connection.State.HandleClosed

\* When QuicConnDrainOperations has returned, the connection of a closed
\* handle is uninitialized and closed locally.
UninitializedAtReturn ==
    (NoDrainRunning /\ Connection.State.HandleClosed) =>
        /\ Connection.State.Uninitialized
        /\ Connection.State.ClosedLocally

\* Once the handle is closed, the loop dispatches no operation.
NoDispatchAfterHandleClosed ==
    Connection.State.HandleClosed =>
        Drain'.OperationCount <= Drain.OperationCount

\* C37: QuicConnUninitialize runs exactly once for a connection whose handle
\* is closed, in the drain in which HandleClosed became true: at the end of
\* every QuicConnDrainOperations call HandleClosed implies Uninitialized and
\* ClosedLocally, and from then on no queued operation is dispatched.
C37_UninitializedOnce ==
    /\ [](UninitializedOnce /\ UninitializedAtReturn)
    /\ [][NoDispatchAfterHandleClosed]_vars

\* The handle was closed in a callback while operations were queued, and the
\* drain has returned: the connection is uninitialized and the queue empty.
C37_Witness ==
    /\ NoDrainRunning
    /\ Connection.State.HandleClosed
    /\ Connection.State.Uninitialized
    /\ Connection.State.ClosedLocally
    /\ Connection.hUninitialize = 1
    /\ Connection.hEvents # << >>
    /\ OperQ.List = << >>


-----------------------------------------------------------------------------
(* The intake list under concurrent producers *)

\* QuicConnQueueRecvDatagram in its two steps. Under ReceiveQueueLock the
\* chain is dropped when the count has reached the limit, else it is
\* appended; the caller that found the list empty (QueueOperation) goes on
\* to queue FLUSH_RECV once it has released the lock. PendingFlush counts
\* the callers between the two steps.
QueueRecvDatagramLocked(Chain) ==
    /\ Env.Inputs < MaxIntakeCalls
    /\ ~Connection.State.Uninitialized
    /\ ReceiveQueue' =
         IF ReceiveQueueCount >= QUIC_MAX_RECEIVE_QUEUE_COUNT
            THEN ReceiveQueue ELSE ReceiveQueue \o Chain
    /\ Env' = [Env EXCEPT !.Inputs = @ + 1,
                          !.PendingFlush =
                                IF ReceiveQueueCount = 0 THEN @ + 1 ELSE @,
                          !.hDropped = (ReceiveQueue' = ReceiveQueue)]
    /\ UNCHANGED <<Connection, now, OperQ, Worker, Drain>>

\* The second step: QuicOperationAlloc and, unless it fails, QuicConnQueueOper.
QueueRecvDatagramOperation(AllocOk) ==
    /\ Env.PendingFlush > 0
    /\ AllocOk \/ Env.AllocFailures < MaxAllocFailures
    /\ Queued(IF AllocOk
                THEN QuicConnQueueOper(Shared,
                        QuicOperationAlloc(QUIC_OPER_TYPE_FLUSH_RECV, NoArg))
                ELSE Shared)
    /\ Env' = [Env EXCEPT !.PendingFlush = @ - 1,
                          !.AllocFailures = IF AllocOk THEN @ ELSE @ + 1]
    /\ UNCHANGED <<Connection, now, ReceiveQueue, Drain>>

IntakeRaceInit ==
    /\ now = 0
    /\ Connection = StartOf(FALSE, "connected", <<5000, 0, 25>>)
    /\ OperQ = InitialOperQ
    /\ ReceiveQueue = << >>
    /\ Worker = InitialWorker
    /\ Drain = InitialDrain
    /\ Env = InitialEnv @@ [PendingFlush |-> 0]

IntakeRaceNext ==
    \/ \E Chain \in Chains : QueueRecvDatagramLocked(Chain)
    \/ \E AllocOk \in BOOLEAN : QueueRecvDatagramOperation(AllocOk)
    \/ WorkerStartDrain("T1", TRUE)
    \/ DrainStep("T1", 0, FALSE)
    \/ DrainEnd("T1", 0)

IntakeRaceSpec == IntakeRaceInit /\ [][IntakeRaceNext]_vars

\* A FLUSH_RECV operation is queued.
FlushRecvQueued ==
    \E k \in 1 .. Len(OperQ.List) : OperQ.List[k].Type = QUIC_OPER_TYPE_FLUSH_RECV

\* C38: under any interleaving of concurrent QuicConnQueueRecvDatagram calls
\* with QuicConnFlushRecv, whenever the intake list is non-empty (and no
\* caller is between its append and its FLUSH_RECV) a FLUSH_RECV operation
\* is queued or being processed, so no accepted datagram stays in the intake
\* list without a pending flush, in every execution, those in which the
\* allocation of the FLUSH_RECV operation fails included.
C38_FlushPending ==
    (ReceiveQueue # << >> /\ Env.PendingFlush = 0) => FlushRecvQueued

\* The same, in the executions in which no allocation has failed.
FlushPendingUnlessAllocFailed ==
    (ReceiveQueue # << >> /\ Env.PendingFlush = 0 /\ Env.AllocFailures = 0)
        => FlushRecvQueued

\* Each FLUSH_RECV detaches the whole list.
FlushRecvDetachesAll ==
    (/\ Drain'.OperationCount = Drain.OperationCount + 1
     /\ Drain'.hDispatch[1].Type = QUIC_OPER_TYPE_FLUSH_RECV)
        => ReceiveQueue' = << >>

FlushRecvDetaches == [][FlushRecvDetachesAll]_vars

\* Datagrams accepted after a failed allocation lie in the list, the worker
\* is idle and no operation is queued.
DatagramsStuck ==
    /\ Len(ReceiveQueue) > 1
    /\ Env.PendingFlush = 0
    /\ OperQ.List = << >>
    /\ Drain.Inside = {}
    /\ ~Worker.HasQueuedWork


\* The step dispatches the TIMER_EXPIRED operation of the timer Type.
DispatchesTimerExpired(Type) ==
    /\ Drain'.OperationCount = Drain.OperationCount + 1
    /\ Drain'.hDispatch[1].Type = QUIC_OPER_TYPE_TIMER_EXPIRED
    /\ Drain'.hDispatch[1].Arg.Timer = Type

\* What an operation may act on: the state, the close status, the send
\* flags, the timers and the events of the application.
ActedOn(C) ==
    [State |-> C.State, CloseStatus |-> C.CloseStatus,
     CloseErrorCode |-> C.CloseErrorCode, SendFlags |-> C.SendFlags,
     Timers |-> C.Timers, hEvents |-> C.hEvents]

\* QuicConnTimerExpired disarms the timers it queues operations for: a timer
\* that is armed when its operation is dispatched was armed again since.
\* C39: a queued TIMER_EXPIRED operation takes effect only if its timer was
\* neither cancelled nor armed again between the expiry and the dispatch; an
\* IDLE expiry does not close a connection that processed a completely valid
\* packet before the dispatch, and no timer operation other than SHUTDOWN
\* acts on a connection that closed in between.
TimerExpiredRevalidated ==
    \A Type \in TimerTypes :
        (/\ DispatchesTimerExpired(Type)
         /\ \/ TimerArmed(Connection, Type)
            \/ Type # QUIC_CONN_TIMER_SHUTDOWN /\ WasClosed(Connection))
            => ActedOn(Connection') = ActedOn(Connection)

C39_TimerExpiredRevalidated == [][TimerExpiredRevalidated]_vars

\* An IDLE operation does not close an open connection whose IDLE timer was
\* armed again.
IdleRearmedNotClosed ==
    (/\ DispatchesTimerExpired(QUIC_CONN_TIMER_IDLE)
     /\ TimerArmed(Connection, QUIC_CONN_TIMER_IDLE)
     /\ ~WasClosed(Connection))
        => ~Connection'.State.ClosedLocally

IdleRevalidated == [][IdleRearmedNotClosed]_vars

\* A KEEP_ALIVE operation does not act on a closed connection.
KeepAliveNotOnClosed ==
    (/\ DispatchesTimerExpired(QUIC_CONN_TIMER_KEEP_ALIVE)
     /\ WasClosed(Connection))
        => ActedOn(Connection') = ActedOn(Connection)

KeepAliveRevalidated == [][KeepAliveNotOnClosed]_vars

\* A LOSS_DETECTION operation changes nothing of the connection itself.
LossDetectionActsNot ==
    DispatchesTimerExpired(QUIC_CONN_TIMER_LOSS_DETECTION)
        => ActedOn(Connection') = ActedOn(Connection)

LossDetectionOperation == [][LossDetectionActsNot]_vars


-----------------------------------------------------------------------------
(* Frames that follow the close of the connection *)

StreamFrame(Type, StreamId) == [Type |-> Type, StreamId |-> StreamId]
MaxDataFrame(MaximumData) == [Type |-> "MAX_DATA", MaximumData |-> MaximumData]
PathChallengeFrame(Data) == [Type |-> "PATH_CHALLENGE", Data |-> Data]

\* The CRYPTO, stream, flow-control, connection-ID and path frames of the
\* peer.
GuardedFrames ==
    {Frame("CRYPTO", FALSE, "-"),
     StreamFrame("STREAM", 0), StreamFrame("STREAM", 1),
     MaxDataFrame(200), NewConnectionIDFrame(1, "T1"), PathChallengeFrame("P1")}

\* The frames that close the connection: a CONNECTION_CLOSE, and a
\* MAX_STREAM_DATA for a unidirectional stream the peer only sends on.
ClosingFrames ==
    {Frame("CONNECTION_CLOSE", FALSE, "QUIC_ERROR_PROTOCOL_VIOLATION"),
     StreamFrame("MAX_STREAM_DATA", 2), StreamFrame("MAX_STREAM_DATA", 3)}

ClosedFramePayloads ==
    {<<F>> : F \in GuardedFrames \cup ClosingFrames}
    \cup
    {<<F, G>> : F \in ClosingFrames \cup {Frame("PING", FALSE, "-")},
                G \in GuardedFrames}

ClosedFramePacketSet ==
    {NewPacket("1RTT", PacketNumber, TRUE, TRUE, "T0", Frames) :
        PacketNumber \in PacketNumbers, Frames \in ClosedFramePayloads}

ClosedFrameInit ==
    /\ now = 0
    /\ \E IsServer \in BOOLEAN :
         Connection =
            QuicConnAlloc(IsServer, "connected", QUIC_PACKET_KEY_1_RTT)
            @@ [PeerMaxData |-> 100, LastPathChallengeReceived |-> "P0",
                hStreams |-> {}]
    /\ OperQ = InitialOperQ
    /\ ReceiveQueue = << >>
    /\ Worker = InitialWorker
    /\ Drain = InitialDrain
    /\ Env = InitialEnv

ClosedFrameNext == \E P \in ClosedFramePacketSet : FlushRecvDrain(<<P>>)

ClosedFrameSpec == ClosedFrameInit /\ [][ClosedFrameNext]_vars

\* What the frames act on: the streams, the connection IDs, the flow-control
\* ceiling of the peer, the path challenge and the send flags.
FrameEffects(C) ==
    [hStreams |-> C.hStreams, DestCIDs |-> C.DestCIDs,
     SourceCIDs |-> C.SourceCIDs, PeerMaxData |-> C.PeerMaxData,
     LastPathChallengeReceived |-> C.LastPathChallengeReceived,
     GotFirstServerResponse |-> C.State.GotFirstServerResponse,
     SendFlags |-> C.SendFlags]

\* The latest packet with only the first k - 1 frames of its payload.
FirstFrames(Packet, k) == [Packet EXCEPT !.Frames = SubSeq(@, 1, k - 1)]

AfterFirstFrames(k) ==
    DrainFinish(QuicConnRecvPackets(
        Connection.hLast.Old, <<FirstFrames(Connection.hLast.Packet, k)>>))

\* The payload of the latest packet was read to its end, and the connection
\* was closed when frame k was parsed: before the packet, or by one of the
\* frames ahead of frame k.
ParsedAfterClose(k) ==
    /\ Connection.hLast.Outcome = "processed"
    /\ k \in 1 .. Len(Connection.hLast.Packet.Frames)
    /\ Connection.hLast.Packet.Frames[k] \in GuardedFrames
    /\ WasClosed(AfterFirstFrames(k))

\* Frame k of the latest packet, and every frame behind it, was without
\* effect.
SkippedFrom(k) == FrameEffects(Connection) = FrameEffects(AfterFirstFrames(k))

\* C40: once the connection is closed locally or remotely, including by a
\* CONNECTION_CLOSE frame or a transport error raised earlier in the same
\* packet, every CRYPTO, stream, flow-control, connection-ID and path frame
\* parsed afterwards is skipped without effect: it creates no stream, adds or
\* removes no connection ID, raises no flow-control ceiling of the peer and
\* sets no send flag.
C40_SkippedAfterClose ==
    \A k \in 1 .. 2 : ParsedAfterClose(k) => SkippedFrom(k)

\* The same for a connection that was closed before the packet.
SkippedWhenClosedBefore ==
    \A k \in 1 .. 2 :
        ParsedAfterClose(k) /\ WasClosed(Connection.hLast.Old) => SkippedFrom(k)

\* A frame was skipped on a connection that was closed before the packet.
ClosedBeforeSkipped ==
    /\ ParsedAfterClose(1)
    /\ WasClosed(Connection.hLast.Old)
    /\ SkippedFrom(1)

\* A NEW_CONNECTION_ID frame behind a CONNECTION_CLOSE frame of the same
\* packet added its connection ID.
CidAddedAfterCloseFrame ==
    /\ ParsedAfterClose(2)
    /\ Connection.hLast.Packet.Frames[1].Type = "CONNECTION_CLOSE"
    /\ Len(Connection.DestCIDs) > Len(AfterFirstFrames(2).DestCIDs)

\* A stream was created by a frame behind the frame that raised a transport
\* error in the same packet.
StreamCreatedAfterTransportError ==
    /\ ParsedAfterClose(2)
    /\ Connection.hLast.Packet.Frames[1].Type = "MAX_STREAM_DATA"
    /\ Connection.hStreams # AfterFirstFrames(2).hStreams

====
